---------------------------- MODULE Spec2Model ----------------------------
(***************************************************************************)
(* A model of the terrain generator: the height-map primitives (height.js),*)
(* the hydrology engine and the mesh queries (water.js) and the territory  *)
(* assignor (cities.js).                                                   *)
(*                                                                         *)
(* Numbers.  The code computes in IEEE doubles.  Here a height is an       *)
(* integer number of height quanta, a position an integer number of map    *)
(* units, and every quantity the code derives by division or square root   *)
(* is kept in fixed point (the scale is named at each use, the rounding is *)
(* towards zero).  The one non-number the code can produce, the result of  *)
(* 0/0, is the value NaN, for which every comparison is false.             *)
(*                                                                         *)
(* Vertices are numbered from 0 as in the code, so a field is a function   *)
(* on 0..N-1; a neighbour list is a sequence, in the order makeMesh built  *)
(* it.                                                                     *)
(***************************************************************************)
EXTENDS Integers, Sequences, FiniteSets, TLC

VARIABLES
    mesh,       \* h.mesh: the mesh every field of the run is bound to
    h,          \* the input height map of the operation under way
    pc,         \* position of the operation under way
    downs,      \* downhill: the downhill map being returned
    newh,       \* fillSinks: the filled map under construction
    epsilon,    \* fillSinks: the de-minimus altitude difference in use
    fi,         \* fillSinks: index i of the for loop over the cells
    changed,    \* fillSinks: the flag of the pass under way
    passes,     \* fillSinks: number of completed passes of the while loop
    idxs,       \* getFlux: the cell indices sorted by height
    flux,       \* getFlux / getTerritories: the flux map
    gi,         \* getFlux: index i of the accumulation loop
    cities,     \* getTerritories: render.cities
    nterrs,     \* getTerritories: render.params.nterrs
    n,          \* getTerritories: number of territories after clamping
    si,         \* getTerritories: index i of the seeding loop
    terr,       \* getTerritories: the territory map
    queue,      \* getTerritories: pending entries of the priority queue
    cost,       \* history: the score of the entry that assigned each cell
    trav,       \* history: the distance travelled to each cell on assignment
    heap,       \* library run: the height maps alive, each with its memo
    amt,        \* erode / doErosion: the argument amount
    rates,      \* erode: er, the erosion-rate map
    cycles,     \* doErosion: the argument n as the caller passed it
    ci,         \* doErosion: index i of the for loop
    steps,      \* history: the calls doErosion has made, in order
    args,       \* add: the operands, each a field with its mesh
    out,        \* what the operation returned: "none" until it returns
    mk,         \* makeMesh: its arguments and its local variables
    limit,      \* getRivers: the threshold flux asked for, a fraction
    links       \* getRivers: the flow segments found

\* the variables of erode, doErosion, add, normalize, makeMesh and getRivers
ext == <<amt, rates, cycles, ci, steps, args, out, mk, limit, links>>

vars == <<mesh, h, pc, downs, newh, epsilon, fi, changed, passes, idxs, flux,
          gi, cities, nterrs, n, si, terr, queue, cost, trav, heap, ext>>

---------------------------------------------------------------------------
(* Bounds of the model.                                                    *)

\* heights of the input fields range over MinHeight..MaxHeight quanta
MaxHeight == 1

MinHeight == 0 - 1

Heights == MinHeight..MaxHeight

---------------------------------------------------------------------------
(* Numbers.                                                                *)

\* the result of 0/0; no height, score or rate of the model reaches it
NaN == 0 - 2000000000

\* a < b of the code: false when either side is NaN
Lt(a, b) == a # NaN /\ b # NaN /\ a < b

\* a >= b of the code
Ge(a, b) == a # NaN /\ b # NaN /\ a >= b

\* a > b of the code
Gt(a, b) == a # NaN /\ b # NaN /\ a > b

\* a == b of the code: NaN equals nothing, itself included
Eq(a, b) == a # NaN /\ b # NaN /\ a = b

\* a + b of the code
Plus(a, b) == IF a = NaN \/ b = NaN THEN NaN ELSE a + b

\* a - b of the code
Minus(a, b) == IF a = NaN \/ b = NaN THEN NaN ELSE a - b

Abs(x) == IF x < 0 THEN 0 - x ELSE x

\* quotient rounded towards zero (\div rounds down)
Quot(a, b) == IF (a >= 0) = (b > 0) THEN Abs(a) \div Abs(b)
              ELSE 0 - (Abs(a) \div Abs(b))

RECURSIVE SqrtSearch(_, _, _)
\* the largest r in lo..hi with r*r <= x
SqrtSearch(x, lo, hi) ==
    IF lo >= hi THEN lo
    ELSE LET mid == (lo + hi + 1) \div 2
         IN  IF mid * mid <= x THEN SqrtSearch(x, mid, hi)
             ELSE SqrtSearch(x, lo, mid - 1)

\* Math.sqrt on a non-negative integer, rounded down
ISqrt(x) == SqrtSearch(x, 0, IF x < 46340 THEN x ELSE 46340)

\* a sequence as the array it stands for, indexed from 0
ZB(s) == [i \in 0..(Len(s) - 1) |-> s[i + 1]]

RECURSIVE Table(_, _)
\* the array whose cells 0..k hold the values f has for them, each computed
\* once
Table(f, k) == IF k = 0 THEN (0 :> f[0]) ELSE Table(f, k - 1) @@ (k :> f[k])

---------------------------------------------------------------------------
(* Meshes.  makeMesh builds vxs, adj and extent from a tessellation; the   *)
(* meshes below are six such results, small enough to enumerate every     *)
(* field on them.  Their coordinates make every distance between adjacent  *)
(* vertices a whole number.                                                *)

\* four mutually adjacent vertices, the corners of a 3 x 4 rectangle at the
\* western side of the map: vertices 0 and 2 are near the edge, 1 and 3 not
QuadMesh ==
    [vxs |-> ZB(<< <<0 - 10, 0 - 2>>, <<0 - 7, 0 - 2>>,
                   <<0 - 10, 2>>, <<0 - 7, 2>> >>),
     adj |-> ZB(<< <<1, 2, 3>>, <<0, 2, 3>>, <<0, 1, 3>>, <<0, 1, 2>> >>),
     extent |-> [width |-> 20, height |-> 20]]

\* a centre c = 0 with four neighbours n1..n4 = 1..4, each on the map edge
CrossMesh ==
    [vxs |-> ZB(<< <<0, 0>>, <<5, 0>>, <<0, 5>>, <<0 - 5, 0>>, <<0, 0 - 5>> >>),
     adj |-> ZB(<< <<1, 2, 3, 4>>, <<0>>, <<0>>, <<0>>, <<0>> >>),
     extent |-> [width |-> 10, height |-> 10]]

\* two components: the pair 0 - 1, of which 0 is near the edge, and the
\* pair 2 - 3 in the middle of the map
PairsMesh ==
    [vxs |-> ZB(<< <<0 - 10, 0>>, <<0 - 5, 0>>, <<3, 4>>, <<6, 8>> >>),
     adj |-> ZB(<< <<1>>, <<0>>, <<3>>, <<2>> >>),
     extent |-> [width |-> 20, height |-> 20]]

\* four mutually adjacent vertices in the middle of the map, none near the
\* edge
CenterMesh ==
    [vxs |-> ZB(<< <<0 - 3, 0 - 4>>, <<3, 0 - 4>>, <<0 - 3, 4>>, <<3, 4>> >>),
     adj |-> ZB(<< <<1, 2, 3>>, <<0, 2, 3>>, <<0, 1, 3>>, <<0, 1, 2>> >>),
     extent |-> [width |-> 40, height |-> 40]]

\* two interior vertices 0 and 1 in a row: 0 joins 1, 2 and 3, 1 joins 0, 4
\* and 2; only the far end 4 is near the edge
ForkMesh ==
    [vxs |-> ZB(<< <<0, 0>>, <<3, 0>>, <<0, 4>>, <<0, 0 - 5>>, <<10, 0>> >>),
     adj |-> ZB(<< <<1, 2, 3>>, <<0, 4, 2>>, <<0, 1>>, <<0>>, <<1>> >>),
     extent |-> [width |-> 20, height |-> 20]]

\* the triangle 0 1 2 with a fourth vertex 3 hanging from 0
KiteMesh ==
    [vxs |-> ZB(<< <<0, 0>>, <<3, 0>>, <<0, 4>>, <<0, 0 - 5>> >>),
     adj |-> ZB(<< <<1, 2, 3>>, <<0, 2>>, <<0, 1>>, <<0>> >>),
     extent |-> [width |-> 20, height |-> 20]]

Meshes == {QuadMesh, CrossMesh, PairsMesh, CenterMesh, ForkMesh}

\* mesh.vxs.length
NV(m) == Cardinality(DOMAIN m.vxs)

Vertices(m) == 0..(NV(m) - 1)

\* the height maps of a mesh with heights in Heights
Fields(m) == [Vertices(m) -> Heights]

\* the cross scenario: heights 0.5, 0.2, 0.8, 0.1, 0.9 on c, n1, n2, n3, n4,
\* in tenths
CrossField == ZB(<<5, 2, 8, 1, 9>>)

neighbours(m, i) == m.adj[i]

isedge(m, i) == Len(m.adj[i]) < 3

\* x < -0.45 * w || x > 0.45 * w || y < -0.45 * h || y > 0.45 * h, each
\* side multiplied by 100
isnearedge(m, i) ==
    LET x == m.vxs[i][1]
        y == m.vxs[i][2]
        w == m.extent.width
        ht == m.extent.height
    IN  \/ 100 * x < 0 - 45 * w
        \/ 100 * x > 45 * w
        \/ 100 * y < 0 - 45 * ht
        \/ 100 * y > 45 * ht

\* Math.sqrt of the squared distance; whole for adjacent vertices
distance(m, i, j) ==
    LET p == m.vxs[i]
        q == m.vxs[j]
    IN  ISqrt((p[1] - q[1]) * (p[1] - q[1]) + (p[2] - q[2]) * (p[2] - q[2]))

\* zero(mesh)
zero(m) == [i \in Vertices(m) |-> 0]

---------------------------------------------------------------------------
(* downhill (height.js).                                                   *)

RECURSIVE DownScan_NotStrict(_, _, _, _, _)
\* DownScan with <= for <: a neighbour no lower than the best so far wins
DownScan_NotStrict(f, nbs, j, best, besth) ==
    IF j > Len(nbs) THEN best
    ELSE IF f[nbs[j]] <= besth
         THEN DownScan_NotStrict(f, nbs, j + 1, nbs[j], f[nbs[j]])
         ELSE DownScan_NotStrict(f, nbs, j + 1, best, besth)

RECURSIVE DownScan(_, _, _, _, _)
\* the for loop of downfrom over nbs, from position j with best and besth
DownScan(f, nbs, j, best, besth) ==
    IF j > Len(nbs) THEN best
    ELSE IF Lt(f[nbs[j]], besth)
         THEN DownScan(f, nbs, j + 1, nbs[j], f[nbs[j]])
         ELSE DownScan(f, nbs, j + 1, best, besth)

\* downfrom(i): -2 at the edge of the map, -1 at a local minimum
downfrom(m, f, i) ==
    IF isedge(m, i) THEN 0 - 2
    ELSE DownScan(f, neighbours(m, i), 1, 0 - 1, f[i])

\* the map downhill computes when the field carries no memo
ComputeDownhill(m, f) ==
    Table([i \in Vertices(m) |-> downfrom(m, f, i)], NV(m) - 1)

\* values of the variables an operation does not use
NoMap == <<>>

IdleFill == /\ newh = NoMap /\ epsilon = 0 /\ fi = 0 /\ changed = FALSE
            /\ passes = 0

IdleFlux == idxs = NoMap /\ gi = 0

IdleExt == /\ amt = 0 /\ rates = NoMap /\ cycles = 0 /\ ci = 0
           /\ steps = <<>> /\ args = <<>> /\ out = "none" /\ mk = NoMap
           /\ limit = <<0, 1>> /\ links = <<>>

IdleTerr == /\ cities = <<>> /\ nterrs = 0 /\ n = 0 /\ si = 0
            /\ terr = NoMap /\ queue = <<>> /\ cost = NoMap /\ trav = NoMap

\* downhill is called on a field of some mesh
InitDown ==
    /\ mesh \in Meshes
    /\ h \in Fields(mesh) \cup (IF mesh = CrossMesh THEN {CrossField} ELSE {})
    /\ pc = "downhill"
    /\ downs = NoMap
    /\ flux = NoMap
    /\ heap = {}
    /\ IdleExt
    /\ IdleFill /\ IdleFlux /\ IdleTerr

\* downhill(h) on a field without memo
Downhill ==
    /\ pc = "downhill"
    /\ downs' = ComputeDownhill(mesh, h)
    /\ pc' = "done"
    /\ UNCHANGED <<mesh, h, newh, epsilon, fi, changed, passes, idxs, flux,
                   gi, cities, nterrs, n, si, terr, queue, cost, trav, heap,
                   ext>>

NextDown == Downhill

SpecDown == InitDown /\ [][NextDown]_vars

\* the positions of nbs whose height is the lowest of the neighbours
LowestAt(m, f, i) ==
    {k \in 1..Len(m.adj[i]) :
        \A l \in 1..Len(m.adj[i]) : f[m.adj[i][k]] <= f[m.adj[i][l]]}

\* C5: downhill(h)[i] is -2 iff i has fewer than 3 neighbours; otherwise it
\* is -1 iff no neighbour is strictly lower than i; otherwise it is the
\* neighbour of lowest height, the first in neighbour-list order among those
\* that share it; on the cross with heights 0.5 0.2 0.8 0.1 0.9 the centre
\* flows to n3.
C5_Downhill ==
    pc = "done" =>
        /\ \A i \in Vertices(mesh) :
            /\ (downs[i] = 0 - 2) <=> (Len(mesh.adj[i]) < 3)
            /\ Len(mesh.adj[i]) >= 3 =>
                /\ (downs[i] = 0 - 1) <=>
                       ~ \E k \in 1..Len(mesh.adj[i]) : h[mesh.adj[i][k]] < h[i]
                /\ downs[i] # 0 - 1 =>
                       \E k \in LowestAt(mesh, h, i) :
                           /\ downs[i] = mesh.adj[i][k]
                           /\ \A l \in LowestAt(mesh, h, i) : k <= l
        /\ (mesh = CrossMesh /\ h = CrossField) => downs[0] = 3

\* C5 witness: downhill has run on an interior cell that has two lowest
\* neighbours, and on the cross scenario
C5_Witness ==
    /\ pc = "done"
    /\ mesh = QuadMesh
    /\ h[0] = 1 /\ h[1] = 0 /\ h[2] = 0 /\ h[3] = 1
    /\ downs[0] = 1

---------------------------------------------------------------------------
(* fillSinks (water.js).                                                   *)

\* epsilon may be given as 1..MaxEpsilon quanta, or left out (0)
MaxEpsilon == 2

\* the while loop is followed for at most MaxPasses passes
MaxPasses == 8

\* the default of epsilon, 1e-5: the smallest height difference, one quantum
DefaultEpsilon == 1

\* "infinity", the starting value of every cell that is not near the edge
infinity == 999999

\* the first for loop with every cell started at "infinity"
FillStartMap_AllSentinel(m, f) == [i \in Vertices(m) |-> infinity]

\* the first for loop: near-edge cells keep their height
FillStartMap(m, f) ==
    [i \in Vertices(m) |-> IF isnearedge(m, i) THEN f[i] ELSE infinity]

RECURSIVE FillScan_NoEpsilon(_, _, _, _, _, _, _, _)
\* FillScan with oh = newh[nbs[j]]: epsilon is not added to the neighbour
FillScan_NoEpsilon(f, eps, nh, i, nbs, j, cur, chg) ==
    IF j > Len(nbs) THEN <<cur, chg>>
    ELSE LET nbh == IF nbs[j] = i THEN cur ELSE nh[nbs[j]]
             oh == nbh
         IN  IF Ge(f[i], oh) THEN <<f[i], TRUE>>
             ELSE IF Gt(cur, oh) /\ Gt(oh, f[i])
                  THEN FillScan_NoEpsilon(f, eps, nh, i, nbs, j + 1, oh, TRUE)
                  ELSE FillScan_NoEpsilon(f, eps, nh, i, nbs, j + 1, cur, chg)

RECURSIVE FillScan_NoGuard(_, _, _, _, _, _, _, _)
\* FillScan without the test newh[i] > oh: a cell follows its neighbour up
\* as well as down
FillScan_NoGuard(f, eps, nh, i, nbs, j, cur, chg) ==
    IF j > Len(nbs) THEN <<cur, chg>>
    ELSE LET nbh == IF nbs[j] = i THEN cur ELSE nh[nbs[j]]
             oh == Plus(nbh, eps)
         IN  IF Ge(f[i], oh) THEN <<f[i], TRUE>>
             ELSE IF cur # oh /\ Gt(oh, f[i])
                  THEN FillScan_NoGuard(f, eps, nh, i, nbs, j + 1, oh, TRUE)
                  ELSE FillScan_NoGuard(f, eps, nh, i, nbs, j + 1, cur, chg)

RECURSIVE FillScan(_, _, _, _, _, _, _, _)
\* the loop over the neighbours nbs of cell i from position j; cur is
\* newh[i] and chg is changed so far; the result is <<newh[i], changed>>
FillScan(f, eps, nh, i, nbs, j, cur, chg) ==
    IF j > Len(nbs) THEN <<cur, chg>>
    ELSE LET nbh == IF nbs[j] = i THEN cur ELSE nh[nbs[j]]
             oh == Plus(nbh, eps)
         IN  IF Ge(f[i], oh) THEN <<f[i], TRUE>>
             ELSE IF Gt(cur, oh) /\ Gt(oh, f[i])
                  THEN FillScan(f, eps, nh, i, nbs, j + 1, oh, TRUE)
                  ELSE FillScan(f, eps, nh, i, nbs, j + 1, cur, chg)

\* one turn of the for loop over the cells: <<newh, changed>> after cell i
FillVisit(m, f, eps, nh, i, chg) ==
    IF Eq(nh[i], f[i]) THEN <<nh, chg>>
    ELSE LET r == FillScan(f, eps, nh, i, neighbours(m, i), 1, nh[i], chg)
         IN  <<[nh EXCEPT ![i] = r[1]], r[2]>>

\* fillSinks is called on a field, with or without epsilon
InitFill ==
    /\ mesh \in Meshes
    /\ h \in Fields(mesh)
    /\ epsilon \in 0..MaxEpsilon
    /\ pc = "fillSinks"
    /\ newh = NoMap /\ fi = 0 /\ changed = FALSE /\ passes = 0
    /\ downs = NoMap
    /\ flux = NoMap
    /\ heap = {}
    /\ IdleExt
    /\ IdleFlux /\ IdleTerr

\* epsilon = epsilon || 1e-5 and the first for loop
FillStart ==
    /\ pc = "fillSinks"
    /\ epsilon' = IF epsilon = 0 THEN DefaultEpsilon ELSE epsilon
    /\ newh' = FillStartMap(mesh, h)
    /\ fi' = 0
    /\ changed' = FALSE
    /\ pc' = "pass"
    /\ UNCHANGED <<mesh, h, downs, passes, idxs, flux, gi, cities, nterrs, n,
                   si, terr, queue, cost, trav, heap, ext>>

\* one cell of a pass
FillCell ==
    /\ pc = "pass"
    /\ fi < NV(mesh)
    /\ LET r == FillVisit(mesh, h, epsilon, newh, fi, changed)
       IN  newh' = r[1] /\ changed' = r[2]
    /\ fi' = fi + 1
    /\ UNCHANGED <<mesh, h, pc, downs, epsilon, passes, idxs, flux, gi, cities,
                   nterrs, n, si, terr, queue, cost, trav, heap, ext>>

\* the end of a pass that changed something: while (true) goes round again
FillAgain ==
    /\ pc = "pass"
    /\ fi = NV(mesh)
    /\ changed
    /\ passes < MaxPasses
    /\ passes' = passes + 1
    /\ changed' = FALSE
    /\ fi' = 0
    /\ UNCHANGED <<mesh, h, pc, downs, newh, epsilon, idxs, flux, gi, cities,
                   nterrs, n, si, terr, queue, cost, trav, heap, ext>>

\* if (!changed) return newh
FillReturn ==
    /\ pc = "pass"
    /\ fi = NV(mesh)
    /\ ~changed
    /\ passes' = passes + 1
    /\ pc' = "done"
    /\ UNCHANGED <<mesh, h, downs, newh, epsilon, fi, changed, idxs, flux, gi,
                   cities, nterrs, n, si, terr, queue, cost, trav, heap, ext>>

NextFill == FillStart \/ FillCell \/ FillAgain \/ FillReturn

SpecFill == InitFill /\ [][NextFill]_vars

\* the loop is sequential code: it takes its next step whenever it has one
FairSpecFill == SpecFill /\ WF_vars(NextFill)

RECURSIVE Reach(_, _)
\* the cells joined to a cell of S by a path of adjacencies
Reach(m, S) ==
    LET T == S \cup {j \in Vertices(m) :
                        \E i \in S : \E k \in 1..Len(m.adj[i]) : m.adj[i][k] = j}
    IN  IF T = S THEN S ELSE Reach(m, T)

NearEdge(m) == {i \in Vertices(m) : isnearedge(m, i)}

\* C7 as stated: in the field fillSinks returns, no cell with 3 or more
\* neighbours is a local minimum under downhill; each has a strictly lower
\* neighbour.
C7_NoInteriorMinimum ==
    pc = "done" =>
        \A i \in Vertices(mesh) :
            ~ isedge(mesh, i) =>
                /\ downfrom(mesh, newh, i) # 0 - 1
                /\ \E k \in 1..Len(mesh.adj[i]) : newh[mesh.adj[i][k]] < newh[i]

\* C7 amended: in the field fillSinks returns, no cell with 3 or more
\* neighbours that is not near the edge and is joined to a near-edge cell is
\* a local minimum under downhill; each has a strictly lower neighbour.
C7_NoFilledInteriorMinimum ==
    pc = "done" =>
        \A i \in Reach(mesh, NearEdge(mesh)) :
            (~ isedge(mesh, i) /\ ~ isnearedge(mesh, i)) =>
                /\ downfrom(mesh, newh, i) # 0 - 1
                /\ \E k \in 1..Len(mesh.adj[i]) : newh[mesh.adj[i][k]] < newh[i]

\* C7 witness: fillSinks has returned a field in which it raised an interior
\* pit, the centre of the cross, above its lowest neighbour
C7_Witness ==
    /\ pc = "done"
    /\ mesh = CrossMesh
    /\ h[0] = MinHeight
    /\ \A i \in 1..4 : h[i] > h[0]
    /\ newh[0] > h[0]
    /\ downfrom(mesh, newh, 0) >= 0

\* C8: fillSinks terminates: the loop reaches a pass that changes nothing
\* and returns; every change of a pass either snaps one cell to its true
\* height, after which no pass changes it, or strictly lowers its filled
\* value.
C8_Terminates ==
    /\ <>(pc = "done")
    /\ [][pc = "pass" =>
            \A i \in Vertices(mesh) :
                /\ newh'[i] # newh[i] =>
                       (newh'[i] = h[i] \/ newh'[i] < newh[i])
                /\ newh[i] = h[i] => newh'[i] = newh[i]]_vars

\* C8 witness: fillSinks has returned after more than two passes
C8_Witness == pc = "done" /\ passes > 2 /\ newh # h

\* C18: at every point of the relaxation loop of fillSinks and in its
\* result, each near-edge vertex holds exactly its true height and every
\* other vertex a filled height greater than or equal to its true height;
\* a vertex whose filled height has reached its true height is never
\* changed again.
C18_FilledAboveTrue ==
    /\ [](pc \in {"pass", "done"} =>
            \A i \in Vertices(mesh) :
                IF isnearedge(mesh, i) THEN newh[i] = h[i]
                ELSE newh[i] >= h[i])
    /\ [][(pc = "pass" \/ pc = "done") =>
            \A i \in Vertices(mesh) :
                newh[i] = h[i] => (newh'[i] = newh[i] /\ h' = h)]_vars

\* C18 witness: fillSinks has returned after three passes or more; a
\* near-edge vertex holds its true height, a vertex away from the edge was
\* lowered from the sentinel to its true height, and another stays above
\* its true height
C18_Witness ==
    /\ pc = "done" /\ passes >= 3
    /\ \E i \in Vertices(mesh) : isnearedge(mesh, i) /\ newh[i] = h[i]
    /\ \E i \in Vertices(mesh) : ~ isnearedge(mesh, i) /\ newh[i] = h[i]
    /\ \E i \in Vertices(mesh) :
        ~ isnearedge(mesh, i) /\ newh[i] > h[i] /\ newh[i] < infinity

\* a ceiling on the passes, were the loop to have one
PassCeiling == 2

\* C9: the relaxation loop has a hard ceiling on its passes: it never goes
\* round again once PassCeiling passes are done, it stops instead.
C9_HardCeiling == pc = "pass" => passes < PassCeiling

---------------------------------------------------------------------------
(* getFlux (water.js).  A flux is counted in shares of 1/N of the rain:    *)
(* the value 1/h.length of the code is one share.                          *)

\* TRUE when the comparator of the sort, h[b] - h[a], is NaN for one pair of
\* cells and a number for another: it is then inconsistent, and the order
\* the sort leaves is whatever the engine makes of it
Inconsistent(m, f) == \E a, b \in Vertices(m) : f[a] = NaN /\ f[b] # NaN

RECURSIVE OrdersOf(_, _, _)
\* the orders of the cells of rest in which no cell comes before a strictly
\* higher one (cells of equal height in any order: the sort need not be
\* stable), or every order of them when any is TRUE
OrdersOf(f, rest, any) ==
    IF rest = {} THEN {<<>>}
    ELSE UNION {{<<c>> \o o : o \in OrdersOf(f, rest \ {c}, any)} :
                   c \in {c \in rest : any \/ \A d \in rest : ~ Lt(f[c], f[d])}}

\* the results idxs.sort(function (a, b) {return h[b] - h[a]}) can give
SortedOrders(m, f) ==
    {ZB(o) : o \in OrdersOf(f, Vertices(m), Inconsistent(m, f))}

\* FluxPass with flux[dh[j]] += 1/h.length: a cell passes on its own share
\* only
FluxPass_OwnShare(dh, fl, j) ==
    IF dh[j] >= 0 THEN [fl EXCEPT ![dh[j]] = fl[dh[j]] + 1] ELSE fl

\* one turn of the accumulation loop: cell j passes its flux down
FluxPass(dh, fl, j) ==
    IF dh[j] >= 0 THEN [fl EXCEPT ![dh[j]] = fl[dh[j]] + fl[j]] ELSE fl

RECURSIVE FluxLoop(_, _, _, _, _)
\* the accumulation loop from index i on
FluxLoop(m, dh, order, fl, i) ==
    IF i >= NV(m) THEN fl
    ELSE FluxLoop(m, dh, order, FluxPass(dh, fl, order[i]), i + 1)

\* every cell starts with one share
FluxStartMap(m) == [i \in Vertices(m) |-> 1]

\* getFlux(h), given the downhill map and the order the sort produced
GetFlux(m, dh, order) == FluxLoop(m, dh, order, FluxStartMap(m), 0)

\* getFlux is called on a field of some mesh
InitFlux ==
    /\ mesh \in Meshes
    /\ h \in Fields(mesh)
    /\ pc = "getFlux"
    /\ downs = NoMap
    /\ flux = NoMap
    /\ idxs = NoMap /\ gi = 0
    /\ heap = {}
    /\ IdleExt
    /\ IdleFill /\ IdleTerr

\* downhill(h), the first loop and the sort
FluxStart ==
    /\ pc = "getFlux"
    /\ downs' = ComputeDownhill(mesh, h)
    /\ flux' = FluxStartMap(mesh)
    /\ idxs' \in SortedOrders(mesh, h)
    /\ gi' = 0
    /\ pc' = "accumulate"
    /\ UNCHANGED <<mesh, h, newh, epsilon, fi, changed, passes, cities, nterrs,
                   n, si, terr, queue, cost, trav, heap, ext>>

\* one turn of the accumulation loop
FluxStep ==
    /\ pc = "accumulate"
    /\ gi < NV(mesh)
    /\ flux' = FluxPass(downs, flux, idxs[gi])
    /\ gi' = gi + 1
    /\ UNCHANGED <<mesh, h, pc, downs, newh, epsilon, fi, changed, passes,
                   idxs, cities, nterrs, n, si, terr, queue, cost, trav, heap,
                   ext>>

\* return flux
FluxReturn ==
    /\ pc = "accumulate"
    /\ gi = NV(mesh)
    /\ pc' = "done"
    /\ UNCHANGED <<mesh, h, downs, newh, epsilon, fi, changed, passes, idxs,
                   flux, gi, cities, nterrs, n, si, terr, queue, cost, trav,
                   heap, ext>>

NextFlux == FluxStart \/ FluxStep \/ FluxReturn

SpecFlux == InitFlux /\ [][NextFlux]_vars

RECURSIVE OnChain(_, _, _, _)
\* i is among the downhill targets of k, its target's target, and so on,
\* followed for at most fuel steps
OnChain(dh, k, i, fuel) ==
    /\ fuel > 0
    /\ dh[k] >= 0
    /\ (dh[k] = i \/ OnChain(dh, dh[k], i, fuel - 1))

\* the cells other than i whose chain of downhill targets passes through i
Upstream(m, dh, i) ==
    {k \in Vertices(m) \ {i} : OnChain(dh, k, i, NV(m))}

\* C10: getFlux(h)[i] is (1 + the number of other cells whose chain of
\* downhill targets passes through i) shares of 1/N, so at least one share,
\* and a cell's flux is already that much when the loop passes it on.
C10_Flux ==
    /\ pc = "done" =>
           \A i \in Vertices(mesh) :
               /\ flux[i] = 1 + Cardinality(Upstream(mesh, downs, i))
               /\ flux[i] >= 1
    /\ (pc = "accumulate" /\ gi < NV(mesh)) =>
           flux[idxs[gi]] = 1 + Cardinality(Upstream(mesh, downs, idxs[gi]))

\* C10 witness: getFlux has returned a map in which a cell drains two
\* others through a chain of two downhill steps
C10_Witness ==
    /\ pc = "done"
    /\ \E i, j, k \in Vertices(mesh) :
           /\ i # j /\ j # k /\ i # k
           /\ downs[k] = j /\ downs[j] = i
           /\ flux[i] >= 3

---------------------------------------------------------------------------
(* getTerritories (cities.js).  A score is kept in fixed point, in units   *)
(* of 1/WScale.                                                            *)

\* render.cities holds at most MaxCities cities
MaxCities == 2

\* fixed point of the scores: a score s of the code is s * WScale here
WScale == 100

\* terr[v] of a cell no territory has been given to
Undefined == 0 - 1

\* the meshes and fields getTerritories is run on: four cells, heights 0
\* (not above the sea) up to MaxHeight
TerrMeshes == {QuadMesh, PairsMesh, KiteMesh}

TerrFields(m) == [Vertices(m) -> 0..MaxHeight]

RECURSIVE SeqsUpTo(_, _)
\* the sequences over S of length at most k
SeqsUpTo(S, k) ==
    IF k = 0 THEN {<<>>}
    ELSE LET R == SeqsUpTo(S, k - 1)
         IN  R \cup {Append(r, x) : r \in {r \in R : Len(r) = k - 1}, x \in S}

\* the city lists getTerritories is run on: at most MaxCities cities, no
\* city twice or one city throughout (placeCity repeats a city once the
\* land has run out)
CityLists(m) ==
    {s \in SeqsUpTo(Vertices(m), MaxCities) :
        \/ \A i, j \in 1..Len(s) : i # j => s[i] # s[j]
        \/ \A i, j \in 1..Len(s) : s[i] = s[j]}

\* the territory counts tried with a list of len cities: one fewer, as
\* many, one more
TerrCounts(len) == {k \in (len - 1)..(len + 1) : k >= 0}

\* weight without the line if (h[u] <= 0) diff = 100
weight_NoSea(m, f, fl, u, v) ==
    LET horiz == distance(m, u, v)
        vert == f[v] - f[u]
        steep == IF vert > 0
                 THEN Quot(WScale * vert * vert, 400 * horiz * horiz)
                 ELSE Quot(WScale * vert * vert, 4 * horiz * horiz)
        river == ISqrt(Quot(10000 * WScale * WScale * fl[u], NV(m)))
        diff == WScale + steep + river
    IN  IF (f[u] > 0) # (f[v] > 0) THEN 1000 * WScale ELSE horiz * diff

\* weight(u, v), the difficulty of travel from u to v, times WScale; fl is
\* flux in shares of 1/N
weight(m, f, fl, u, v) ==
    LET horiz == distance(m, u, v)
        vert == f[v] - f[u]
        \* 0.25 * Math.pow(vert / horiz, 2), vert divided by 10 when positive
        steep == IF vert > 0
                 THEN Quot(WScale * vert * vert, 400 * horiz * horiz)
                 ELSE Quot(WScale * vert * vert, 4 * horiz * horiz)
        \* 100 * Math.sqrt(flux[u])
        river == ISqrt(Quot(10000 * WScale * WScale * fl[u], NV(m)))
        diff == IF f[u] <= 0 THEN 100 * WScale ELSE WScale + steep + river
    IN  IF (f[u] > 0) # (f[v] > 0) THEN 1000 * WScale ELSE horiz * diff

\* Clamp that takes every city for a capital
Clamp_AllCities(k, len) == len

\* if (n > render.cities.length) n = render.cities.length
Clamp(k, len) == IF k > len THEN len ELSE k

\* MinIdx of a queue that gives its entries in any order
MinIdx_AnyOrder(q) == 1..Len(q)

\* the positions of the entries the queue may give next: a lowest score
MinIdx(q) == {k \in 1..Len(q) : \A l \in 1..Len(q) : q[k].score <= q[l].score}

\* the queue without its k-th entry
Remove(q, k) == SubSeq(q, 1, k - 1) \o SubSeq(q, k + 1, Len(q))

\* terr[v] != undefined
HasTerritory(t, v) == t[v] # Undefined

\* Stale without the test: no dequeued entry is ignored
Stale_Never(t, u) == FALSE

\* the test on the dequeued entry u: its cell already has a territory
Stale(t, u) == HasTerritory(t, u.vx)

RECURSIVE Enqueue(_, _, _, _, _, _, _, _, _)
\* the loop over the neighbours nbs of cell u from position j, for city c,
\* with base the score and gone the distance travelled to reach u; seed is
\* TRUE for the loop of a capital, which queues every neighbour
Enqueue(m, f, fl, t, q, u, j, e, seed) ==
    LET nbs == neighbours(m, u)
    IN  IF j > Len(nbs) THEN q
        ELSE IF ~ seed /\ HasTerritory(t, nbs[j])
             THEN Enqueue(m, f, fl, t, q, u, j + 1, e, seed)
             ELSE Enqueue(m, f, fl, t,
                          Append(q, [score |-> e.score + weight(m, f, fl, u, nbs[j]),
                                     city |-> e.city,
                                     vx |-> nbs[j],
                                     gone |-> e.gone + distance(m, u, nbs[j])]),
                          u, j + 1, e, seed)

\* getTerritories is called on a world map
InitTerr ==
    /\ mesh \in TerrMeshes
    /\ h \in TerrFields(mesh)
    /\ cities \in CityLists(mesh)
    /\ nterrs \in TerrCounts(Len(cities))
    /\ pc = "getTerritories"
    /\ n = 0 /\ si = 0
    /\ terr = NoMap /\ queue = <<>> /\ cost = NoMap /\ trav = NoMap
    /\ downs = NoMap
    /\ flux = NoMap
    /\ heap = {}
    /\ IdleExt
    /\ IdleFill /\ IdleFlux

\* the clamping of n, getFlux(h), the empty territory map and queue
TerrStart ==
    /\ pc = "getTerritories"
    /\ n' = Clamp(nterrs, Len(cities))
    /\ downs' = ComputeDownhill(mesh, h)
    /\ \E order \in SortedOrders(mesh, h) : flux' = GetFlux(mesh, downs', order)
    /\ terr' = [v \in Vertices(mesh) |-> Undefined]
    /\ cost' = [v \in Vertices(mesh) |-> Undefined]
    /\ trav' = [v \in Vertices(mesh) |-> Undefined]
    /\ queue' = <<>>
    /\ si' = 0
    /\ pc' = "seed"
    /\ UNCHANGED <<mesh, h, newh, epsilon, fi, changed, passes, idxs, gi,
                   cities, nterrs, heap, ext>>

\* one turn of the loop over the desired territories
TerrSeed ==
    /\ pc = "seed"
    /\ si < n
    /\ LET c == cities[si + 1]
       IN  /\ terr' = [terr EXCEPT ![c] = c]
           /\ cost' = [cost EXCEPT ![c] = 0]
           /\ trav' = [trav EXCEPT ![c] = 0]
           /\ queue' = Enqueue(mesh, h, flux, terr', queue, c, 1,
                               [score |-> 0, city |-> c, gone |-> 0], TRUE)
    /\ si' = si + 1
    /\ UNCHANGED <<mesh, h, pc, downs, newh, epsilon, fi, changed, passes,
                   idxs, flux, gi, cities, nterrs, n, heap, ext>>

\* the loop over the desired territories is over
TerrSeeded ==
    /\ pc = "seed"
    /\ si >= n
    /\ pc' = "expand"
    /\ UNCHANGED <<mesh, h, downs, newh, epsilon, fi, changed, passes, idxs,
                   flux, gi, cities, nterrs, n, si, terr, queue, cost, trav,
                   heap, ext>>

\* queue.dequeue() gives an entry whose cell has a territory: continue
TerrDiscard ==
    /\ pc = "expand"
    /\ \E k \in MinIdx(queue) :
           /\ Stale(terr, queue[k])
           /\ queue' = Remove(queue, k)
    /\ UNCHANGED <<mesh, h, pc, downs, newh, epsilon, fi, changed, passes,
                   idxs, flux, gi, cities, nterrs, n, si, terr, cost, trav,
                   heap, ext>>

\* queue.dequeue() gives an entry whose cell is free: the cell goes to the
\* entry's city and its free neighbours are queued
TerrAssign ==
    /\ pc = "expand"
    /\ \E k \in MinIdx(queue) :
           LET u == queue[k]
           IN  /\ ~ Stale(terr, u)
               /\ terr' = [terr EXCEPT ![u.vx] = u.city]
               /\ cost' = [cost EXCEPT ![u.vx] = u.score]
               /\ trav' = [trav EXCEPT ![u.vx] = u.gone]
               /\ queue' = Enqueue(mesh, h, flux, terr', Remove(queue, k),
                                   u.vx, 1, u, FALSE)
    /\ UNCHANGED <<mesh, h, pc, downs, newh, epsilon, fi, changed, passes,
                   idxs, flux, gi, cities, nterrs, n, si, heap, ext>>

\* the queue is empty: return terr
TerrReturn ==
    /\ pc = "expand"
    /\ queue = <<>>
    /\ pc' = "done"
    /\ UNCHANGED <<mesh, h, downs, newh, epsilon, fi, changed, passes, idxs,
                   flux, gi, cities, nterrs, n, si, terr, queue, cost, trav,
                   heap, ext>>

NextTerr == TerrStart \/ TerrSeed \/ TerrSeeded \/ TerrDiscard \/ TerrAssign
            \/ TerrReturn

SpecTerr == InitTerr /\ [][NextTerr]_vars

\* the capitals: the first min(nterrs, number of cities) cities
Capitals == {cities[i] : i \in 1..(IF nterrs > Len(cities) THEN Len(cities)
                                   ELSE nterrs)}

\* C1: once a cell has an owner its owner never changes, and a dequeued
\* entry whose cell is owned is dropped without any change to terr.
C1_OwnerNeverChanges ==
    [][(pc \in {"seed", "expand"} /\ pc' \in {"seed", "expand"}) =>
          /\ \A v \in Vertices(mesh) :
                 terr[v] # Undefined => terr'[v] = terr[v]
          /\ \A k \in MinIdx(queue) :
                 (pc = "expand" /\ terr[queue[k].vx] # Undefined
                                /\ queue' = Remove(queue, k)) => terr' = terr]_vars

\* C1 witness: an entry whose cell another entry has taken is at the head
\* of the queue of a run with two capitals
C1_Witness ==
    /\ pc = "expand"
    /\ Cardinality(Capitals) = 2
    /\ \E k \in MinIdx(queue) :
           /\ terr[queue[k].vx] # Undefined
           /\ terr[queue[k].vx] # queue[k].city
           /\ queue[k].vx \notin Capitals

\* the least number of a non-empty set of numbers
SetMin(S) == CHOOSE x \in S : \A y \in S : x <= y

\* the cheaper of the cost d has for cell v and the cost of a neighbour of
\* v plus the weight of the step from it; d is a sequence, the cost of cell
\* v at position v + 1, Undefined standing for no path yet
RelaxedAt(d, v) ==
    LET Via == {d[u + 1] + weight(mesh, h, flux, u, v) :
                   u \in {u \in Vertices(mesh) :
                             /\ d[u + 1] # Undefined
                             /\ \E k \in 1..Len(mesh.adj[u]) : mesh.adj[u][k] = v}}
        Best == (IF d[v + 1] # Undefined THEN {d[v + 1]} ELSE {}) \cup Via
    IN  IF Best = {} THEN Undefined ELSE SetMin(Best)

RECURSIVE Relaxed(_, _)
\* one round of relaxation of the costs d, for the cells below k
Relaxed(d, k) ==
    IF k = 0 THEN <<>> ELSE Append(Relaxed(d, k - 1), RelaxedAt(d, k - 1))

RECURSIVE MinCost(_, _)
\* the costs d after the given number of rounds of relaxation
MinCost(d, rounds) ==
    IF rounds = 0 THEN d ELSE MinCost(Relaxed(d, NV(mesh)), rounds - 1)

RECURSIVE StartCost(_)
\* cost 0 at the capitals and no path yet elsewhere, for the cells below k
StartCost(k) ==
    IF k = 0 THEN <<>>
    ELSE Append(StartCost(k - 1), IF (k - 1) \in Capitals THEN 0 ELSE Undefined)

\* the cost of the cheapest path from a capital to each cell v, at v + 1
Cheapest == MinCost(StartCost(NV(mesh)), NV(mesh))

\* C2: the score at which a cell was assigned is, when getTerritories
\* returns, the least sum of weights over all paths from a capital to it,
\* and no entry left in the queue ever carries a lower score for a cell than
\* the one the cell was assigned at.
C2_CheapestFirst ==
    pc \in {"expand", "done"} =>
        /\ pc = "done" =>
               \A v \in Vertices(mesh) :
                   terr[v] # Undefined => cost[v] = Cheapest[v + 1]
        /\ \A k \in 1..Len(queue) :
               terr[queue[k].vx] # Undefined =>
                   queue[k].score >= cost[queue[k].vx]

\* C2 witness: a cell next to a capital was assigned more cheaply along a
\* path of several steps than the step from that capital costs, and at a
\* score no single step from a capital gives
C2_Witness ==
    /\ pc = "done"
    /\ \E v \in Vertices(mesh) \ Capitals :
           /\ terr[v] # Undefined
           /\ \E c \in Capitals :
                  /\ \E k \in 1..Len(mesh.adj[c]) : mesh.adj[c][k] = v
                  /\ weight(mesh, h, flux, c, v) > cost[v]
           /\ \A c \in Capitals :
                  (\E k \in 1..Len(mesh.adj[c]) : mesh.adj[c][k] = v) =>
                      weight(mesh, h, flux, c, v) # cost[v]

\* C3: when getTerritories returns, a cell is owned iff it is a capital or
\* is joined to one by a path of adjacencies, its owner is a capital, and
\* cities after the first min(K, number of cities) own nothing.
C3_OwnedIffReachable ==
    pc = "done" =>
        \A v \in Vertices(mesh) :
            /\ (terr[v] # Undefined) <=> (v \in Reach(mesh, Capitals))
            /\ terr[v] # Undefined => terr[v] \in Capitals

\* C3 witness: getTerritories has returned with a cell left unassigned
\* and a city beyond the first K that owns nothing
C3_Witness ==
    /\ pc = "done"
    /\ Len(cities) = 2 /\ nterrs = 1
    /\ cities[2] \notin Capitals
    /\ terr[cities[2]] = Undefined
    /\ \E v \in Vertices(mesh) : terr[v] = cities[1] /\ v # cities[1]

\* the scenario of C4: four mutually adjacent cells at height 0, one capital
\* and K = 1, and getTerritories has returned
QuadScenario ==
    /\ pc = "done"
    /\ mesh \in {QuadMesh, CenterMesh}
    /\ h = zero(mesh)
    /\ Len(cities) = 1 /\ nterrs = 1

\* C4 as stated: all four cells go to the capital and each other cell is
\* assigned at a score equal to the Euclidean distance travelled to it
\* along the expansion tree.
C4_ScoreIsDistance ==
    QuadScenario =>
        \A v \in Vertices(mesh) :
            /\ terr[v] = cities[1]
            /\ v # cities[1] => cost[v] = WScale * trav[v]

\* C4 amended: all four cells go to the capital and each other cell is
\* assigned at a score equal to 100 times the Euclidean distance travelled
\* to it along the expansion tree, height 0 not being above the sea.
C4_ScoreIsHundredfoldDistance ==
    QuadScenario =>
        \A v \in Vertices(mesh) :
            /\ terr[v] = cities[1]
            /\ v # cities[1] => (trav[v] > 0 /\ cost[v] = 100 * WScale * trav[v])

\* C4 witness: the scenario has run from capital 0 of the 3 x 4 rectangle
C4_Witness ==
    /\ QuadScenario
    /\ mesh = QuadMesh
    /\ cities[1] = 0
    /\ trav[1] = 3 /\ trav[2] = 4 /\ trav[3] = 5

---------------------------------------------------------------------------
(* The height-map primitives (height.js) and the derived maps (water.js,   *)
(* cities.js) as functions of the values of their arguments.               *)

\* fixed point of a slope: a slope s of the code is s * SScale here
SScale == 10

\* fixed point of an erosion rate and of a city score
RScale == 10

\* slope(mesh, direction)
slope(m, direction) ==
    Table([i \in Vertices(m) |->
        m.vxs[i][1] * direction[1] + m.vxs[i][2] * direction[2]], NV(m) - 1)

\* the functions map is called with: Math.sqrt (cityScore, peaky), and two
\* of the caller's, x -> -x and x -> 2 * x
MapFns == {"sqrt", "negate", "double"}

ApplyFn(fn, x) ==
    IF x = NaN THEN NaN
    ELSE IF fn = "sqrt" THEN (IF x < 0 THEN NaN ELSE ISqrt(x))
    ELSE IF fn = "negate" THEN 0 - x
    ELSE 2 * x

\* h.map(f): the values of the new array
MapVals(m, f, fn) ==
    Table([i \in Vertices(m) |-> ApplyFn(fn, f[i])], NV(m) - 1)

\* add(a, b): the sum, cell by cell
AddVals(m, f, g) ==
    Table([i \in Vertices(m) |-> Plus(f[i], g[i])], NV(m) - 1)

RECURSIVE SumSeq(_, _)
\* the sum of the numbers of s from position j on, NaN left out
SumSeq(s, j) ==
    IF j > Len(s) THEN 0
    ELSE (IF s[j] = NaN THEN 0 ELSE s[j]) + SumSeq(s, j + 1)

\* d3.mean: the mean of the numbers of s, NaN left out; with no number
\* left it returns undefined, which computes and compares as NaN does
Mean(s) ==
    LET cnt == Cardinality({j \in 1..Len(s) : s[j] # NaN})
    IN  IF cnt = 0 THEN NaN ELSE Quot(SumSeq(s, 1), cnt)

\* relax(h)
RelaxVals(m, f) ==
    Table([i \in Vertices(m) |->
        LET nbs == neighbours(m, i)
        IN  IF Len(nbs) < 3 THEN 0
            ELSE Mean([j \in 1..Len(nbs) |-> f[nbs[j]]])], NV(m) - 1)

\* the quantiles setSeaLevel is called with, as fractions <<p, q>> = p / q
Quantiles == {<<0, 1>>, <<1, 2>>, <<1, 1>>}

\* d3.quantile(sortedh, q) on the cells in the order asc the sort left them
QuantileOf(m, f, asc, q) ==
    LET cnt == NV(m)
        pos == (cnt - 1) * q[1]
        i0 == pos \div q[2]
        value0 == f[asc[i0]]
    IN  IF q[1] <= 0 \/ cnt < 2 THEN f[asc[0]]
        ELSE IF q[1] >= q[2] THEN f[asc[cnt - 1]]
        ELSE IF value0 = NaN \/ f[asc[i0 + 1]] = NaN THEN NaN
        ELSE value0 + Quot((f[asc[i0 + 1]] - value0) * (pos % q[2]), q[2])

\* the results sortedh.sort(d3.ascending) can give, as orders of the cells:
\* the sorted orders of getFlux backwards
AscendingOrders(m, f) ==
    {Table([i \in Vertices(m) |-> o[NV(m) - 1 - i]], NV(m) - 1) :
        o \in SortedOrders(m, f)}

\* the values quantile(h, q) can return
Quantile(m, f, q) ==
    {QuantileOf(m, f, asc, q) : asc \in AscendingOrders(m, f)}

\* setSeaLevel(h, q), quantile having returned delta
SeaLevelVals(m, f, delta) ==
    Table([i \in Vertices(m) |-> Minus(f[i], delta)], NV(m) - 1)

RECURSIVE FillPass(_, _, _, _, _, _)
\* the for loop over the cells from cell i on: <<newh, changed>>
FillPass(m, f, eps, nh, i, chg) ==
    IF i >= NV(m) THEN <<nh, chg>>
    ELSE LET r == FillVisit(m, f, eps, nh, i, chg)
         IN  FillPass(m, f, eps, r[1], i + 1, r[2])

RECURSIVE FillLoop(_, _, _, _)
\* while (true): passes until one changes nothing
FillLoop(m, f, eps, nh) ==
    LET r == FillPass(m, f, eps, nh, 0, FALSE)
    IN  IF r[2] THEN FillLoop(m, f, eps, r[1]) ELSE r[1]

\* fillSinks(h, epsilon); epsilon 0 stands for an argument left out
FillSinks(m, f, eps) ==
    FillLoop(m, f, IF eps = 0 THEN DefaultEpsilon ELSE eps, FillStartMap(m, f))

\* Math.sqrt(a * a + b * b); beyond 30000 it is taken in units of 4096 to
\* stay within 32-bit integers
Hypot(a, b) ==
    IF Abs(a) < 30000 /\ Abs(b) < 30000 THEN ISqrt(a * a + b * b)
    ELSE 4096 * ISqrt(Quot(a, 4096) * Quot(a, 4096)
                      + Quot(b, 4096) * Quot(b, 4096))

\* Math.sqrt(s[0] * s[0] + s[1] * s[1]) of trislope(h, i), times SScale; no
\* mesh of the model has a cell whose three neighbours are in line (det 0)
SlopeAt(m, f, i) ==
    LET nbs == neighbours(m, i)
        p0 == m.vxs[nbs[1]]
        p1 == m.vxs[nbs[2]]
        p2 == m.vxs[nbs[3]]
        x1 == p1[1] - p0[1]
        x2 == p2[1] - p0[1]
        y1 == p1[2] - p0[2]
        y2 == p2[2] - p0[2]
        det == x1 * y2 - x2 * y1
        h1 == f[nbs[2]] - f[nbs[1]]
        h2 == f[nbs[3]] - f[nbs[1]]
        gx == y2 * h1 - y1 * h2
        gy == x1 * h2 - x2 * h1
    IN  IF Len(nbs) # 3 THEN 0
        ELSE IF f[nbs[1]] = NaN \/ f[nbs[2]] = NaN \/ f[nbs[3]] = NaN \/ det = 0
             THEN NaN
        ELSE Quot(SScale * Hypot(gx, gy), Abs(det))

\* getSlope(h): the values of the steepness map
SlopeVals(m, f) ==
    Table([i \in Vertices(m) |-> SlopeAt(m, f, i)], NV(m) - 1)

\* erosionRate(h), times RScale, from the flux fl (in shares) and the slope
\* sl (times SScale) of h
RateVals(m, fl, sl) ==
    Table([i \in Vertices(m) |->
        IF sl[i] = NaN THEN NaN
        \* creep alone is above the cap of 200 from a slope of 15 on
        ELSE IF sl[i] >= 15 * SScale THEN 200 * RScale
        ELSE LET \* 1000 * Math.sqrt(flux[i]) * slope[i]
                 river == Quot(10 * RScale * ISqrt(Quot(10000 * fl[i], NV(m)))
                                  * sl[i], SScale)
                 \* slope[i] * slope[i]
                 creep == Quot(RScale * sl[i] * sl[i], SScale * SScale)
                 total == river + creep
             IN  IF total > 200 * RScale THEN 200 * RScale ELSE total],
          NV(m) - 1)

\* d3.max(er): the largest number of er, NaN left out; NaN stands for the
\* undefined it returns when there is none
MaxOf(m, er) ==
    LET nums == {er[i] : i \in {i \in Vertices(m) : er[i] # NaN}}
    IN  IF nums = {} THEN NaN ELSE CHOOSE x \in nums : \A y \in nums : y <= x

\* erode(h, amount) from the erosion rate er of h: 0 / 0 is NaN
ErodeVals(m, f, er, amount) ==
    LET maxr == MaxOf(m, er)
    IN  Table([i \in Vertices(m) |->
            IF f[i] = NaN \/ er[i] = NaN \/ maxr = NaN THEN NaN
            ELSE IF maxr = 0 THEN NaN
            ELSE f[i] - Quot(amount * er[i], maxr)], NV(m) - 1)

\* the maps getFlux(h) can return for a field of values f whose downhill
\* map is dh, one for each order its sort can leave
FluxResults(m, f, dh) == {GetFlux(m, dh, o) : o \in SortedOrders(m, f)}

\* the maps erosionRate(h) can return
RateResults(m, f, dh) ==
    {RateVals(m, fl, SlopeVals(m, f)) : fl \in FluxResults(m, f, dh)}

\* the maps erode(h, amount) can return
ErodeFrom(m, f, dh, amount) ==
    {ErodeVals(m, f, er, amount) : er \in RateResults(m, f, dh)}

\* the results of erode(h, amount) on a field without memo
ErodeResults(m, f, amount) ==
    ErodeFrom(m, f, ComputeDownhill(m, f), amount)

\* n = n || 1
Cycles(k) == IF k = 0 THEN 1 ELSE k

RECURSIVE ErosionCycles(_, _, _, _)
\* the for loop of doErosion with k turns to go, S being the values h may
\* have
ErosionCycles(m, S, amount, k) ==
    IF k = 0 THEN S
    ELSE ErosionCycles(m,
             {FillSinks(m, e, 0) :
                 e \in UNION {ErodeResults(m, f, amount) : f \in S}},
             amount, k - 1)

\* the results of doErosion(h, amount, n)
DoErosionResults(m, f, amount, k) ==
    ErosionCycles(m, {FillSinks(m, f, 0)}, amount, Cycles(k))

RECURSIVE CityPenalty(_, _, _, _)
\* the sum over the cities cs from position j on of
\* 0.02 / (distance(h.mesh, cities[j], i) + 1e-9), times RScale
CityPenalty(m, cs, i, j) ==
    IF j > Len(cs) THEN 0
    ELSE (IF distance(m, cs[j], i) = 0 THEN 20000000 * RScale
          ELSE Quot(2 * RScale, 100 * distance(m, cs[j], i)))
         + CityPenalty(m, cs, i, j + 1)

\* cityScore(h, cities), times RScale, from the flux fl of h; a cell that
\* is not near the edge is more than 1e-9 inside the map
CityScoreVals(m, f, fl, cs) ==
    Table([i \in Vertices(m) |->
        IF Ge(0, f[i]) \/ isnearedge(m, i) THEN 0 - 999999 * RScale
        ELSE ISqrt(Quot(RScale * RScale * fl[i], NV(m)))
             + Quot(2 * RScale, 100 * (2 * Abs(m.vxs[i][1]) - m.extent.width))
             + Quot(2 * RScale, 100 * (2 * Abs(m.vxs[i][2]) - m.extent.height))
             - CityPenalty(m, cs, i, 1)], NV(m) - 1)

---------------------------------------------------------------------------
(* A run of the library: height maps are made from a mesh and from each    *)
(* other, and each call leaves on its argument the memo downhill leaves.   *)

\* at most MaxFields height maps are alive
MaxFields == 2

\* a call is made on maps whose values are within MaxMagnitude
MaxMagnitude == 100

\* the largest number of cycles doErosion is called with
MaxCycles == 1

LibMeshes == {QuadMesh, KiteMesh}

Directions == {<<1, 0>>, <<0, 1>>}

Amounts == {1, 2}

\* the city lists of the calls of cityScore and getTerritories
LibCityLists(m) == {<<>>} \cup {<<c>> : c \in Vertices(m)}

\* a new array: it has no downhill property
NewField(v) == [vals |-> v, downhill |-> NoMap]

InRange(fld) ==
    \A i \in DOMAIN fld.vals :
        fld.vals[i] = NaN \/ Abs(fld.vals[i]) <= MaxMagnitude

\* the maps alive a call can be made on
Usable == {fld \in heap : InRange(fld)}

\* the field after downhill(h): the memo it has, or else the one computed
WithMemo(m, fld) ==
    IF fld.downhill # NoMap THEN fld
    ELSE [fld EXCEPT !.downhill = ComputeDownhill(m, fld.vals)]

\* map with the new array taking over the downhill property of h
map_KeepsMemo(m, fld, fn) ==
    [vals |-> MapVals(m, fld.vals, fn), downhill |-> fld.downhill]

\* map(h, f)
map(m, fld, fn) == NewField(MapVals(m, fld.vals, fn))

\* the maps alive after a call on argument a that called downhill(a) when
\* memo says so, and returned the maps made
After(a, memo, made) ==
    /\ LET kept == IF memo THEN (heap \ {a}) \cup {WithMemo(mesh, a)}
                   ELSE heap
       IN  /\ Cardinality(kept \cup made) <= MaxFields
           /\ heap' = kept \cup made
    /\ UNCHANGED <<mesh, h, pc, downs, newh, epsilon, fi, changed, passes,
                   idxs, flux, gi, cities, nterrs, n, si, terr, queue, cost,
                   trav, ext>>

\* the program has a mesh and no height map yet
InitLib ==
    /\ mesh \in LibMeshes
    /\ heap = {}
    /\ IdleExt
    /\ pc = "lib"
    /\ h = NoMap
    /\ downs = NoMap
    /\ flux = NoMap
    /\ IdleFill /\ IdleFlux /\ IdleTerr

LibZero ==
    /\ pc = "lib"
    /\ Cardinality(heap \cup {NewField(zero(mesh))}) <= MaxFields
    /\ heap' = heap \cup {NewField(zero(mesh))}
    /\ UNCHANGED <<mesh, h, pc, downs, newh, epsilon, fi, changed, passes,
                   idxs, flux, gi, cities, nterrs, n, si, terr, queue, cost,
                   trav, ext>>

LibSlope ==
    /\ pc = "lib"
    /\ \E direction \in Directions :
        /\ Cardinality(heap \cup {NewField(slope(mesh, direction))})
               <= MaxFields
        /\ heap' = heap \cup {NewField(slope(mesh, direction))}
    /\ UNCHANGED <<mesh, h, pc, downs, newh, epsilon, fi, changed, passes,
                   idxs, flux, gi, cities, nterrs, n, si, terr, queue, cost,
                   trav, ext>>

LibDownhill ==
    /\ pc = "lib"
    /\ \E a \in Usable : After(a, TRUE, {})

LibMap ==
    /\ pc = "lib"
    /\ \E a \in Usable, fn \in MapFns : After(a, FALSE, {map(mesh, a, fn)})

LibAdd ==
    /\ pc = "lib"
    /\ \E a \in Usable, b \in Usable :
        After(a, FALSE, {NewField(AddVals(mesh, a.vals, b.vals))})

LibRelax ==
    /\ pc = "lib"
    /\ \E a \in Usable : After(a, FALSE, {NewField(RelaxVals(mesh, a.vals))})

LibSetSeaLevel ==
    /\ pc = "lib"
    /\ \E a \in Usable, q \in Quantiles :
        \E delta \in Quantile(mesh, a.vals, q) :
            After(a, FALSE, {NewField(SeaLevelVals(mesh, a.vals, delta))})

LibFillSinks ==
    /\ pc = "lib"
    /\ \E a \in Usable, eps \in 0..MaxEpsilon :
        After(a, FALSE, {NewField(FillSinks(mesh, a.vals, eps))})

LibGetFlux ==
    /\ pc = "lib"
    /\ \E a \in Usable :
        \E fl \in FluxResults(mesh, a.vals, WithMemo(mesh, a).downhill) :
            After(a, TRUE, {NewField(fl)})

LibGetSlope ==
    /\ pc = "lib"
    /\ \E a \in Usable : After(a, TRUE, {NewField(SlopeVals(mesh, a.vals))})

LibErosionRate ==
    /\ pc = "lib"
    /\ \E a \in Usable :
        \E er \in RateResults(mesh, a.vals, WithMemo(mesh, a).downhill) :
            After(a, TRUE, {NewField(er)})

LibErode ==
    /\ pc = "lib"
    /\ \E a \in Usable, amount \in Amounts :
        \E r \in ErodeFrom(mesh, a.vals, WithMemo(mesh, a).downhill, amount) :
            After(a, TRUE, {NewField(r)})

\* doErosion works on the maps fillSinks and erode return, never on h
LibDoErosion ==
    /\ pc = "lib"
    /\ \E a \in Usable, amount \in Amounts, k \in 0..MaxCycles :
        \E r \in DoErosionResults(mesh, a.vals, amount, k) :
            After(a, FALSE, {NewField(r)})

\* getRivers returns paths, which are no height maps
LibGetRivers ==
    /\ pc = "lib"
    /\ \E a \in Usable : After(a, TRUE, {})

LibCityScore ==
    /\ pc = "lib"
    /\ \E a \in Usable, cs \in LibCityLists(mesh) :
        \E fl \in FluxResults(mesh, a.vals, WithMemo(mesh, a).downhill) :
            After(a, TRUE, {NewField(CityScoreVals(mesh, a.vals, fl, cs))})

\* getTerritories returns a map of owners, which is no height map
LibGetTerritories ==
    /\ pc = "lib"
    /\ \E a \in Usable : After(a, TRUE, {})

NextLib ==
    \/ LibZero \/ LibSlope \/ LibDownhill \/ LibMap \/ LibAdd \/ LibRelax
    \/ LibSetSeaLevel \/ LibFillSinks \/ LibGetFlux \/ LibGetSlope
    \/ LibErosionRate \/ LibErode \/ LibDoErosion \/ LibGetRivers
    \/ LibCityScore \/ LibGetTerritories

SpecLib == InitLib /\ [][NextLib]_vars

\* C6: after any sequence of library operations, the downhill map cached on
\* a height map equals the downhill map computed afresh from the values the
\* height map has now.
C6_MemoConsistent ==
    pc = "lib" =>
        \A fld \in heap :
            fld.downhill # NoMap =>
                fld.downhill = ComputeDownhill(mesh, fld.vals)

\* C6 witness: a map with a memo and a map made from it by map(h, f), with
\* other values, whose own memo differs from the first one's
C6_Witness ==
    /\ pc = "lib"
    /\ \E a \in heap, b \in heap :
        /\ a.downhill # NoMap /\ b.downhill # NoMap
        /\ \E fn \in MapFns : b.vals = MapVals(mesh, a.vals, fn)
        /\ b.vals # a.vals
        /\ b.downhill # a.downhill

---------------------------------------------------------------------------
(* erode (water.js), step by step.                                         *)

\* the largest amount erode is called with, in height quanta
MaxAmount == 2

ErodeMeshes == {QuadMesh, ForkMesh}

\* erode is called on a field of numbers with an amount >= 0
InitErode ==
    /\ mesh \in ErodeMeshes
    /\ h \in Fields(mesh)
    /\ pc = "erode"
    /\ downs = NoMap
    /\ flux = NoMap
    /\ heap = {}
    /\ IdleFill /\ IdleFlux /\ IdleTerr
    /\ amt \in 0..MaxAmount
    /\ rates = NoMap /\ cycles = 0 /\ ci = 0 /\ steps = <<>> /\ args = <<>>
    /\ out = "none" /\ mk = NoMap /\ limit = <<0, 1>> /\ links = <<>>

\* var er = erosionRate(h)
ErodeRate ==
    /\ pc = "erode"
    /\ downs' = ComputeDownhill(mesh, h)
    /\ \E fl \in FluxResults(mesh, h, downs') :
        /\ flux' = fl
        /\ rates' = RateVals(mesh, fl, SlopeVals(mesh, h))
    /\ pc' = "scale"
    /\ UNCHANGED <<mesh, h, newh, epsilon, fi, changed, passes, idxs, gi,
                   cities, nterrs, n, si, terr, queue, cost, trav, heap, amt,
                   cycles, ci, steps, args, out, mk, limit, links>>

\* maxr = d3.max(er), the loop over the cells and the return
ErodeScale ==
    /\ pc = "scale"
    /\ newh' = ErodeVals(mesh, h, rates, amt)
    /\ out' = "field"
    /\ pc' = "done"
    /\ UNCHANGED <<mesh, h, downs, epsilon, fi, changed, passes, idxs, flux,
                   gi, cities, nterrs, n, si, terr, queue, cost, trav, heap,
                   amt, rates, cycles, ci, steps, args, mk, limit, links>>

NextErode == ErodeRate \/ ErodeScale

SpecErode == InitErode /\ [][NextErode]_vars

\* the amount by which erode has lowered cell i
Lowered(i) == h[i] - newh[i]

\* C11: erode lowers every cell by a quantity from 0 to amount, and exactly
\* one cell, the one with the largest erosion rate, by precisely amount.
C11_ErodeByAmount ==
    pc = "done" =>
        /\ \A i \in Vertices(mesh) :
               newh[i] # NaN /\ Lowered(i) >= 0 /\ Lowered(i) <= amt
        /\ \E i \in Vertices(mesh) :
               /\ Lowered(i) = amt
               /\ rates[i] = MaxOf(mesh, rates)
               /\ \A j \in Vertices(mesh) \ {i} :
                      newh[j] # NaN /\ Lowered(j) # amt

---------------------------------------------------------------------------
(* doErosion (water.js), call by call.  h is the local variable h of the   *)
(* code, which each call rebinds to the map it returns.                    *)

DoErosionMeshes == {QuadMesh, ForkMesh}

\* doErosion is called on a field with an amount and a number of cycles
InitDoErosion ==
    /\ mesh \in DoErosionMeshes
    /\ h \in Fields(mesh)
    /\ pc = "doErosion"
    /\ downs = NoMap
    /\ flux = NoMap
    /\ heap = {}
    /\ IdleFill /\ IdleFlux /\ IdleTerr
    /\ amt \in 0..MaxAmount
    /\ cycles \in 0..MaxCycles
    /\ rates = NoMap /\ ci = 0 /\ steps = <<>> /\ args = <<>>
    /\ out = "none" /\ mk = NoMap /\ limit = <<0, 1>> /\ links = <<>>

\* n = n || 1; h = fillSinks(h); i = 0
DoErosionStart ==
    /\ pc = "doErosion"
    /\ n' = Cycles(cycles)
    /\ h' = FillSinks(mesh, h, 0)
    /\ steps' = Append(steps, "fillSinks")
    /\ ci' = 0
    /\ pc' = "cycle"
    /\ UNCHANGED <<mesh, downs, newh, epsilon, fi, changed, passes, idxs,
                   flux, gi, cities, nterrs, si, terr, queue, cost, trav,
                   heap, amt, rates, cycles, args, out, mk, limit, links>>

\* i < n; h = erode(h, amount)
DoErosionErode ==
    /\ pc = "cycle"
    /\ ci < n
    /\ \E e \in ErodeResults(mesh, h, amt) : h' = e
    /\ steps' = Append(steps, "erode")
    /\ pc' = "refill"
    /\ UNCHANGED <<mesh, downs, newh, epsilon, fi, changed, passes, idxs,
                   flux, gi, cities, nterrs, n, si, terr, queue, cost, trav,
                   heap, amt, rates, cycles, ci, args, out, mk, limit, links>>

\* h = fillSinks(h); i++
DoErosionFill ==
    /\ pc = "refill"
    /\ h' = FillSinks(mesh, h, 0)
    /\ steps' = Append(steps, "fillSinks")
    /\ ci' = ci + 1
    /\ pc' = "cycle"
    /\ UNCHANGED <<mesh, downs, newh, epsilon, fi, changed, passes, idxs,
                   flux, gi, cities, nterrs, n, si, terr, queue, cost, trav,
                   heap, amt, rates, cycles, args, out, mk, limit, links>>

\* i >= n; return h
DoErosionReturn ==
    /\ pc = "cycle"
    /\ ci >= n
    /\ newh' = h
    /\ out' = "field"
    /\ pc' = "done"
    /\ UNCHANGED <<mesh, h, downs, epsilon, fi, changed, passes, idxs, flux,
                   gi, cities, nterrs, n, si, terr, queue, cost, trav, heap,
                   amt, rates, cycles, ci, steps, args, mk, limit, links>>

NextDoErosion ==
    DoErosionStart \/ DoErosionErode \/ DoErosionFill \/ DoErosionReturn

SpecDoErosion == InitDoErosion /\ [][NextDoErosion]_vars

\* C12: for every number of cycles, 0 included, doErosion calls fillSinks
\* and then cycles times erode followed by fillSinks: cycles calls of erode,
\* cycles + 1 of fillSinks, and it returns what the last fillSinks returned.
C12_StepSequence ==
    /\ pc = "done" =>
           /\ Len(steps) = 2 * cycles + 1
           /\ \A k \in 1..Len(steps) :
                  steps[k] = (IF k % 2 = 1 THEN "fillSinks" ELSE "erode")
           /\ newh = h
    /\ pc = "cycle" => steps[Len(steps)] = "fillSinks"

---------------------------------------------------------------------------
(* normalize and peaky (height.js).                                        *)

\* fixed point of a normalized height: the value 1 of the code is NScale
NScale == 100

\* d3.min(h): the smallest number of h, NaN left out; NaN stands for the
\* undefined it returns when there is none
MinOf(m, f) ==
    LET nums == {f[i] : i \in {i \in Vertices(m) : f[i] # NaN}}
    IN  IF nums = {} THEN NaN ELSE CHOOSE x \in nums : \A y \in nums : x <= y

\* normalize(h): (x - lo) / (hi - lo) in every cell, 0 / 0 being NaN
NormalizeVals(m, f) ==
    LET lo == MinOf(m, f)
        hi == MaxOf(m, f)
    IN  Table([i \in Vertices(m) |->
                  IF f[i] = NaN \/ lo = NaN \/ hi = lo THEN NaN
                  ELSE Quot((f[i] - lo) * NScale, hi - lo)], NV(m) - 1)

\* peaky(h): map(normalize(h), Math.sqrt)
PeakyVals(m, f) ==
    LET nv == NormalizeVals(m, f)
    IN  Table([i \in Vertices(m) |->
                  IF nv[i] = NaN THEN NaN ELSE ISqrt(nv[i] * NScale)],
              NV(m) - 1)

\* normalize is called on a field of numbers
InitNormalize ==
    /\ mesh \in Meshes
    /\ h \in Fields(mesh)
    /\ pc = "normalize"
    /\ downs = NoMap
    /\ flux = NoMap
    /\ heap = {}
    /\ IdleFill /\ IdleFlux /\ IdleTerr /\ IdleExt

\* normalize(h)
Normalize ==
    /\ pc = "normalize"
    /\ newh' = NormalizeVals(mesh, h)
    /\ out' = "field"
    /\ pc' = "done"
    /\ UNCHANGED <<mesh, h, downs, epsilon, fi, changed, passes, idxs, flux,
                   gi, cities, nterrs, n, si, terr, queue, cost, trav, heap,
                   amt, rates, cycles, ci, steps, args, mk, limit, links>>

NextNormalize == Normalize

SpecNormalize == InitNormalize /\ [][NextNormalize]_vars

\* C13: normalize of a constant field returns the all-zero field, without
\* NaN; for a field with max > min every value of the result lies in [0, 1],
\* the minimum becoming 0 and the maximum 1.
C13_Normalize ==
    pc = "done" =>
        LET lo == MinOf(mesh, h)
            hi == MaxOf(mesh, h)
        IN  /\ hi = lo => \A i \in Vertices(mesh) : newh[i] = 0
            /\ hi > lo =>
                   \A i \in Vertices(mesh) :
                       /\ newh[i] # NaN /\ newh[i] >= 0 /\ newh[i] <= NScale
                       /\ h[i] = lo => newh[i] = 0
                       /\ h[i] = hi => newh[i] = NScale

---------------------------------------------------------------------------
(* add (height.js) on operands that need not match.  An operand is a field *)
(* with the mesh it is bound to.                                           *)

AddMeshes == {QuadMesh, PairsMesh, CrossMesh}

\* the operands: the fields of the meshes, with heights from 0
AddOperands ==
    UNION {{[vals |-> f, mesh |-> m] : f \in TerrFields(m)} : m \in AddMeshes}

\* arguments[j][i]: undefined beyond the end of the array, which adds as
\* NaN does
ArgAt(a, i) == IF i \in DOMAIN a.vals THEN a.vals[i] ELSE NaN

RECURSIVE AddCell(_, _, _)
\* newvals[i] after the inner loop over the operands from position j on,
\* starting from 0 when the cell is one zero made and from undefined beyond
AddCell(as, i, j) ==
    IF j = 0 THEN (IF i < NV(as[1].mesh) THEN 0 ELSE NaN)
    ELSE Plus(AddCell(as, i, j - 1), ArgAt(as[j], i))

\* add(a, b, ...): the cells 0..n-1 of the result, n = arguments[0].length,
\* and the cells zero made beyond them
AddAll(as) ==
    LET len == Cardinality(DOMAIN as[1].vals)
        top == IF len > NV(as[1].mesh) THEN len ELSE NV(as[1].mesh)
    IN  Table([i \in 0..(top - 1) |->
                  IF i < len THEN AddCell(as, i, Len(as)) ELSE 0], top - 1)

\* add is called with one or two operands
InitAdd ==
    /\ args \in {<<a>> : a \in AddOperands}
                \cup {<<a, b>> : a \in AddOperands, b \in AddOperands}
    /\ mesh = args[1].mesh
    /\ h = NoMap
    /\ pc = "add"
    /\ downs = NoMap
    /\ flux = NoMap
    /\ heap = {}
    /\ IdleFill /\ IdleFlux /\ IdleTerr
    /\ amt = 0 /\ rates = NoMap /\ cycles = 0 /\ ci = 0 /\ steps = <<>>
    /\ out = "none" /\ mk = NoMap /\ limit = <<0, 1>> /\ links = <<>>

\* add(...): there is no test of the operands, it returns newvals
Add ==
    /\ pc = "add"
    /\ newh' = AddAll(args)
    /\ out' = "field"
    /\ pc' = "done"
    /\ UNCHANGED <<mesh, h, downs, epsilon, fi, changed, passes, idxs, flux,
                   gi, cities, nterrs, n, si, terr, queue, cost, trav, heap,
                   amt, rates, cycles, ci, steps, args, mk, limit, links>>

NextAdd == Add

SpecAdd == InitAdd /\ [][NextAdd]_vars

---------------------------------------------------------------------------
(* makeMesh (water.js), edge by edge.  The tessellation d3.voronoi returns *)
(* is an input: vor.edges[i] is read when the loop reaches it.             *)

\* the largest number of entries of vor.edges
MaxEdges == 3

\* the end points tessellation edges have
Corners == {<<0, 0>>, <<3, 0>>, <<0, 4>>}

\* an entry of vor.edges that is undefined
NoEdge == [undefined |-> TRUE]

\* the entries of vor.edges: undefined, or an edge e with e[0], e[1],
\* e.left and, except on the border of the extent, e.right
EdgeItems ==
    {NoEdge} \cup
    {[undefined |-> FALSE, e0 |-> p, e1 |-> q, left |-> "s0", right |-> r] :
        p \in Corners, q \in Corners, r \in {"s1", "none"}}

\* the point lists makeMesh is called with: four distinct points, and four
\* points of which only two are distinct
PointLists ==
    {<<<<-5, -5>>, <<5, -5>>, <<-5, 5>>, <<5, 5>>>>,
     <<<<-5, -5>>, <<5, 5>>, <<-5, -5>>, <<5, 5>>>>}

\* the number of times v occurs in the list s
Count(s, v) == Cardinality({k \in 1..Len(s) : s[k] = v})

\* vxids[p], undefined being Undefined
IdOf(vxids, p) == IF p \in DOMAIN vxids THEN vxids[p] ELSE Undefined

\* the frame after the lookup of end point p: a new vertex is given the
\* next id, is pushed on vxs, and has an empty adj and tris entry from then
Lookup(f, p) ==
    IF IdOf(f.vxids, p) # Undefined THEN f
    ELSE [f EXCEPT !.vxids = (p :> Len(f.vxs)) @@ f.vxids,
                   !.vxs = Append(f.vxs, p),
                   !.adj = Append(f.adj, <<>>),
                   !.tris = Append(f.tris, <<>>)]

\* the adjacency lists with one end point only noted as adjacent to the
\* other
Link_OneWay(adj, e0, e1) ==
    [adj EXCEPT ![e0 + 1] = Append(adj[e0 + 1], e1)]

\* adj[e0].push(e1); adj[e1].push(e0)
Link(adj, e0, e1) ==
    LET a == [adj EXCEPT ![e0 + 1] = Append(adj[e0 + 1], e1)]
    IN  [a EXCEPT ![e1 + 1] = Append(a[e1 + 1], e0)]

\* tris[v] after the sites of edge e are noted on it
Note(t, e) ==
    LET withLeft == IF Count(t, e.left) = 0 THEN Append(t, e.left) ELSE t
    IN  IF e.right # "none" /\ Count(withLeft, e.right) = 0
        THEN Append(withLeft, e.right) ELSE withLeft

\* tris after the sites of edge e are noted on e0 and then on e1
Notes(tris, e, e0, e1) ==
    LET t == [tris EXCEPT ![e0 + 1] = Note(tris[e0 + 1], e)]
    IN  [t EXCEPT ![e1 + 1] = Note(t[e1 + 1], e)]

\* the frame after the body of the loop for edge e
WithEdge(f, e) ==
    LET g  == Lookup(Lookup(f, e.e0), e.e1)
        e0 == g.vxids[e.e0]
        e1 == g.vxids[e.e1]
    IN  [g EXCEPT !.adj = Link(g.adj, e0, e1),
                  !.edges = Append(g.edges, <<e0, e1, e.left, e.right>>),
                  !.tris = Notes(g.tris, e, e0, e1),
                  !.i = g.i + 1]


\* defaultExtent, which is set outside these files: a square
defaultExtent == [width |-> 20, height |-> 20]

\* an extent argument left out
NoExtent == [undefined |-> TRUE]

\* the calls of makeMesh: points and extent
MeshCalls ==
    {[pts |-> p, extent |-> defaultExtent] : p \in PointLists}
    \cup {[pts |-> p, extent |-> x] :
             p \in {<<<<-5, -5>>, <<5, -5>>, <<-5, 5>>, <<5, 5>>>>},
             x \in {NoExtent, [width |-> 0, height |-> 20]}}

\* makeMesh is called; the tessellation has up to MaxEdges entries
InitMesh ==
    /\ \E c \in MeshCalls, len \in 0..MaxEdges :
        mk = [pts |-> c.pts, extent |-> c.extent, len |-> len, vxs |-> <<>>,
              vxids |-> <<>>, adj |-> <<>>, edges |-> <<>>, tris |-> <<>>,
              i |-> 0]
    /\ mesh = NoMap
    /\ h = NoMap
    /\ pc = "makeMesh"
    /\ downs = NoMap
    /\ flux = NoMap
    /\ heap = {}
    /\ IdleFill /\ IdleFlux /\ IdleTerr
    /\ amt = 0 /\ rates = NoMap /\ cycles = 0 /\ ci = 0 /\ steps = <<>>
    /\ args = <<>> /\ out = "none" /\ limit = <<0, 1>> /\ links = <<>>

\* extent = extent || defaultExtent; vor = voronoi(pts, extent): there is
\* no test of the points or of the extent
MeshStart ==
    /\ pc = "makeMesh"
    /\ mk' = [mk EXCEPT !.extent = IF @ = NoExtent THEN defaultExtent ELSE @]
    /\ pc' = "edges"
    /\ UNCHANGED <<mesh, h, downs, newh, epsilon, fi, changed, passes, idxs,
                   flux, gi, cities, nterrs, n, si, terr, queue, cost, trav,
                   heap, amt, rates, cycles, ci, steps, args, out, limit,
                   links>>

\* one turn of the loop over vor.edges: an undefined entry is skipped
MeshEdge ==
    /\ pc = "edges"
    /\ mk.i < mk.len
    /\ \E e \in EdgeItems :
        mk' = IF e.undefined THEN [mk EXCEPT !.i = @ + 1]
              ELSE WithEdge(mk, e)
    /\ UNCHANGED <<mesh, h, pc, downs, newh, epsilon, fi, changed, passes,
                   idxs, flux, gi, cities, nterrs, n, si, terr, queue, cost,
                   trav, heap, amt, rates, cycles, ci, steps, args, out,
                   limit, links>>

\* the mesh is put together and returned
MeshReturn ==
    /\ pc = "edges"
    /\ mk.i >= mk.len
    /\ mesh' = [vxs |-> ZB(mk.vxs), adj |-> ZB(mk.adj), extent |-> mk.extent]
    /\ out' = "mesh"
    /\ pc' = "done"
    /\ UNCHANGED <<h, downs, newh, epsilon, fi, changed, passes, idxs, flux,
                   gi, cities, nterrs, n, si, terr, queue, cost, trav, heap,
                   amt, rates, cycles, ci, steps, args, mk, limit, links>>

NextMesh == MeshStart \/ MeshEdge \/ MeshReturn

SpecMesh == InitMesh /\ [][NextMesh]_vars


\* TRUE when the operands of add do not all share one mesh and one length
Mismatch(as) ==
    \E j \in 1..Len(as) :
        as[j].mesh # as[1].mesh \/ DOMAIN as[j].vals # DOMAIN as[1].vals

\* TRUE when makeMesh was called with an extent of width or height 0 or
\* with fewer than 4 distinct points
BadMeshCall ==
    \/ mk.extent.width = 0
    \/ mk.extent.height = 0
    \/ Cardinality({mk.pts[k] : k \in 1..Len(mk.pts)}) < 4

\* C14: configuration errors are rejected: add on operands that do not share
\* one mesh and length returns a "field mismatch" error and no field, and
\* makeMesh on an extent of width or height 0 or on fewer than 4 distinct
\* points returns an "invalid mesh configuration" error and no mesh.
C14_ConfigRejected ==
    /\ (pc = "done" /\ args # <<>> /\ Mismatch(args)) =>
           (out = "field mismatch" /\ newh = NoMap)
    /\ (pc = "done" /\ mk # NoMap /\ BadMeshCall) =>
           (out = "invalid mesh configuration" /\ mesh = NoMap)

\* the number of entries of the adjacency lists adj that are vertex v
Occurrences(adj, v) ==
    Cardinality({jk \in UNION {{<<j, k>> : k \in 1..Len(adj[j])} :
                                  j \in DOMAIN adj} : adj[jk[1]][jk[2]] = v})

\* C15: whatever edges makeMesh has processed, undefined entries, edges
\* without right origin and edges with one point at both ends included,
\* vertex j occurs in adj[i] as many times as i occurs in adj[j]; and on the
\* mesh returned isedge(mesh, v) is true iff v has fewer than 3 neighbours,
\* counted on its own list or on the lists of the others.
C15_Symmetric ==
    /\ pc = "edges" =>
           \A i \in 1..Len(mk.adj), j \in 1..Len(mk.adj) :
               Count(mk.adj[i], j - 1) = Count(mk.adj[j], i - 1)
    /\ (pc = "done" /\ mk # NoMap) =>
           \A i \in Vertices(mesh) :
               /\ \A j \in Vertices(mesh) :
                      Count(mesh.adj[i], j) = Count(mesh.adj[j], i)
               /\ isedge(mesh, i) <=> Len(neighbours(mesh, i)) < 3
               /\ isedge(mesh, i) <=> Occurrences(mesh.adj, i) < 3

\* C15 witness: makeMesh has returned a mesh after skipping an undefined
\* entry and processing an edge without right origin and an edge with one
\* point at both ends; one vertex is on the edge and one is not
C15_Witness ==
    /\ pc = "done" /\ mk # NoMap /\ out = "mesh"
    /\ mk.len > Len(mk.edges)
    /\ \E k \in 1..Len(mk.edges) : mk.edges[k][4] = "none"
    /\ \E k \in 1..Len(mk.edges) : mk.edges[k][1] = mk.edges[k][2]
    /\ \E v \in Vertices(mesh) : isedge(mesh, v)
    /\ \E v \in Vertices(mesh) : ~ isedge(mesh, v)


---------------------------------------------------------------------------
(* getRivers (water.js).  Positions are kept doubled, so that the midpoint *)
(* of two vertices is a pair of whole numbers; flux is in shares of        *)
(* 1/h.length, and the threshold a fraction <<numerator, denominator>>.    *)

\* the highest height of the fields getRivers is run on: a vertex above the
\* sea can then have a downhill neighbour above the sea
MaxRiverHeight == 2

\* ForkMesh with its far end 4 joined to 2 and 3 as well: 4 is near the edge
\* and has three neighbours, 0, 1 and 2 are inland with three neighbours
DeltaMesh ==
    [vxs |-> ZB(<< <<0, 0>>, <<3, 0>>, <<0, 4>>, <<0, 0 - 5>>, <<10, 0>> >>),
     adj |-> ZB(<< <<1, 2, 3>>, <<0, 4, 2>>, <<0, 1, 4>>, <<0, 4>>,
                   <<1, 2, 3>> >>),
     extent |-> [width |-> 20, height |-> 20]]

RiverMeshes == {QuadMesh, KiteMesh, DeltaMesh}

RiverFields(m) == [Vertices(m) -> MinHeight..MaxRiverHeight]

\* the threshold fractions getRivers is called with
Limits == {<<0, 1>>, <<1, 2>>, <<1, 1>>}

\* the position of vertex i, doubled
Twice(m, i) == <<2 * m.vxs[i][1], 2 * m.vxs[i][2]>>

\* [(up[0] + down[0])/2, (up[1] + down[1])/2], doubled
Midpoint(m, i, j) ==
    <<m.vxs[i][1] + m.vxs[j][1], m.vxs[i][2] + m.vxs[j][2]>>

\* the number of cells with h[i] > 0
Above(m, f) == Cardinality({i \in Vertices(m) : Gt(f[i], 0)})

\* flux[i] > limit, for fl in shares of 1/h.length and the fraction lim
OverLimit(m, fl, lim, i) == fl[i] * lim[2] > lim[1] * NV(m)

\* the test of the loop with near-edge cells tested like the others
Emits_Edge(m, f, dh, fl, lim, i) ==
    OverLimit(m, fl, lim, i) /\ Gt(f[i], 0) /\ dh[i] >= 0

\* cell i is not skipped and flux[i] > limit && h[i] > 0 && dh[i] >= 0
Emits(m, f, dh, fl, lim, i) ==
    /\ ~ isnearedge(m, i)
    /\ OverLimit(m, fl, lim, i) /\ Gt(f[i], 0) /\ dh[i] >= 0

\* the link pushed for cell i: [up, down] when h[dh[i]] > 0, else up to the
\* midpoint
LinkOf(m, f, dh, i) ==
    IF Gt(f[dh[i]], 0) THEN <<Twice(m, i), Twice(m, dh[i])>>
    ELSE <<Twice(m, i), Midpoint(m, i, dh[i])>>

\* getRivers(h, limit) is called on a field of numbers
InitRivers ==
    /\ mesh \in RiverMeshes
    /\ h \in RiverFields(mesh)
    /\ pc = "getRivers"
    /\ downs = NoMap
    /\ flux = NoMap
    /\ heap = {}
    /\ IdleFill /\ IdleFlux /\ IdleTerr
    /\ amt = 0 /\ rates = NoMap /\ cycles = 0 /\ ci = 0 /\ steps = <<>>
    /\ out = "none" /\ mk = NoMap /\ links = <<>>
    /\ args \in Limits
    /\ limit = args

\* dh = downhill(h), flux = getFlux(h), and limit *= above / h.length
RiverStart ==
    /\ pc = "getRivers"
    /\ downs' = ComputeDownhill(mesh, h)
    /\ flux' \in FluxResults(mesh, h, ComputeDownhill(mesh, h))
    /\ limit' = <<limit[1] * Above(mesh, h), limit[2] * NV(mesh)>>
    /\ gi' = 0
    /\ pc' = "links"
    /\ UNCHANGED <<mesh, h, newh, epsilon, fi, changed, passes, idxs, cities,
                   nterrs, n, si, terr, queue, cost, trav, heap, amt, rates,
                   cycles, ci, steps, args, out, mk, links>>

\* one turn of the loop over the cells
RiverCell ==
    /\ pc = "links"
    /\ gi < NV(mesh)
    /\ links' = IF Emits(mesh, h, downs, flux, limit, gi)
                THEN Append(links, LinkOf(mesh, h, downs, gi))
                ELSE links
    /\ gi' = gi + 1
    /\ UNCHANGED <<mesh, h, pc, downs, newh, epsilon, fi, changed, passes,
                   idxs, flux, cities, nterrs, n, si, terr, queue, cost,
                   trav, heap, amt, rates, cycles, ci, steps, args, out, mk,
                   limit>>

\* the links go to mergeSegments and relaxPath, and the paths are returned
RiverReturn ==
    /\ pc = "links"
    /\ gi >= NV(mesh)
    /\ out' = "paths"
    /\ pc' = "done"
    /\ UNCHANGED <<mesh, h, downs, newh, epsilon, fi, changed, passes, idxs,
                   flux, gi, cities, nterrs, n, si, terr, queue, cost, trav,
                   heap, amt, rates, cycles, ci, steps, args, mk, limit,
                   links>>

NextRivers == RiverStart \/ RiverCell \/ RiverReturn

SpecRivers == InitRivers /\ [][NextRivers]_vars

\* flux[i] exceeds fluxThresholdFraction * (vertices with height > 0) / N
OverThreshold(i) == flux[i] * args[2] > args[1] * Above(mesh, h)

\* vertex i has flux over the threshold, is above sea level and has a valid
\* downhill target
River(i) == OverThreshold(i) /\ h[i] > 0 /\ downs[i] >= 0

\* the number of segments starting at vertex i's position and ending at e
Segments(i, e) ==
    Cardinality({k \in 1..Len(links) : links[k] = <<Twice(mesh, i), e>>})

\* the number of segments starting at vertex i's position
SegmentsFrom(i) ==
    Cardinality({k \in 1..Len(links) : links[k][1] = Twice(mesh, i)})

\* C17 as stated: every vertex with flux over the threshold, height > 0 and
\* downhill >= 0 emits exactly one segment from its position, to the
\* downhill neighbour's position, or to the midpoint when the downhill
\* target is below sea level; no other vertex emits a segment.
C17_Segments ==
    pc = "done" =>
        \A i \in Vertices(mesh) :
            IF River(i)
            THEN /\ SegmentsFrom(i) = 1
                 /\ Segments(i, IF h[downs[i]] < 0
                                THEN Midpoint(mesh, i, downs[i])
                                ELSE Twice(mesh, downs[i])) = 1
            ELSE SegmentsFrom(i) = 0

\* C17 amended: every vertex that is not near the edge, with flux over the
\* threshold, height > 0 and downhill >= 0 emits exactly one segment from
\* its position, to the downhill neighbour's position, or to the midpoint
\* when the downhill target is at or below sea level (height <= 0); no other
\* vertex emits a segment.
C17_InlandSegments ==
    pc = "done" =>
        \A i \in Vertices(mesh) :
            IF River(i) /\ ~ isnearedge(mesh, i)
            THEN /\ SegmentsFrom(i) = 1
                 /\ Segments(i, IF h[downs[i]] <= 0
                                THEN Midpoint(mesh, i, downs[i])
                                ELSE Twice(mesh, downs[i])) = 1
            ELSE SegmentsFrom(i) = 0

\* C17 witness: getRivers has returned with a full segment, a segment to
\* the midpoint of a target at sea level, and no segment from a vertex near
\* the edge that meets the three conditions
C17_Witness ==
    /\ pc = "done" /\ out = "paths"
    /\ \E i \in Vertices(mesh) :
        /\ River(i) /\ ~ isnearedge(mesh, i) /\ h[downs[i]] > 0
        /\ Segments(i, Twice(mesh, downs[i])) = 1
    /\ \E i \in Vertices(mesh) :
        /\ River(i) /\ ~ isnearedge(mesh, i) /\ h[downs[i]] = 0
        /\ Segments(i, Midpoint(mesh, i, downs[i])) = 1
    /\ \E i \in Vertices(mesh) :
        River(i) /\ isnearedge(mesh, i) /\ SegmentsFrom(i) = 0


---------------------------------------------------------------------------
(* One call of a transform or of a derived computation, on arrays that    *)
(* stay alive: heap holds the arrays the caller has, and the call leaves   *)
(* what it returns in newh (an array with .mesh set), in links (the paths  *)
(* of getRivers) or in terr (the array of getTerritories, with .mesh set). *)

\* the arrays the caller holds after a call on a that wrote its result v
\* into a
Kept_InPlace(a, memo, v, kind) ==
    IF kind = "field"
    THEN (heap \ {a}) \cup {[vals |-> v, downhill |-> a.downhill]}
    ELSE heap \ {a}

\* the arrays the caller holds after a call on a: the result v is a new
\* array, and a carries the memo of downhill(a) when the call made it
Kept(a, memo, v, kind) ==
    IF memo THEN (heap \ {a}) \cup {WithMemo(mesh, a)} ELSE heap

\* the arrays a call is made on: every field, with and without its memo
PureInputs(m) ==
    {NewField(v) : v \in Fields(m)}
    \cup {WithMemo(m, NewField(v)) : v \in Fields(m)}

RECURSIVE RiverLinks(_, _, _, _, _, _, _)
\* the loop of getRivers over the cells from i on, acc being links
RiverLinks(m, f, dh, fl, lim, i, acc) ==
    IF i >= NV(m) THEN acc
    ELSE RiverLinks(m, f, dh, fl, lim, i + 1,
                    IF Emits(m, f, dh, fl, lim, i)
                    THEN Append(acc, LinkOf(m, f, dh, i)) ELSE acc)

\* the links getRivers(h, limit) can find
RiverResults(m, f, dh, lim) ==
    {RiverLinks(m, f, dh, fl,
                <<lim[1] * Above(m, f), lim[2] * NV(m)>>, 0, <<>>) :
        fl \in FluxResults(m, f, dh)}

\* which entries the array getTerritories returns has, and which of them are
\* defined: every vertex queued is given an owner, so the vertices joined to
\* one of the first k cities are; the array ends at the last of them
TerrArray(m, cs, k) ==
    LET caps  == {cs[j] : j \in 1..(IF k > Len(cs) THEN Len(cs) ELSE k)}
        owned == Reach(m, caps)
        len   == IF owned = {} THEN 0
                 ELSE 1 + CHOOSE x \in owned : \A y \in owned : y <= x
    IN  [i \in 0..(len - 1) |-> i \in owned]

\* the meshes of the calls: PairsMesh has vertices no city can reach
PureMeshes == LibMeshes \cup {PairsMesh}

\* one or two arrays on a mesh, and no call made yet
InitPure ==
    /\ mesh \in PureMeshes
    /\ \E a \in PureInputs(mesh) :
        \E b \in {a, NewField(zero(mesh))} : heap = {a, b}
    /\ pc = "call"
    /\ h = NoMap
    /\ downs = NoMap
    /\ flux = NoMap
    /\ IdleFill /\ IdleFlux /\ IdleTerr /\ IdleExt

\* the call name(a, ...) returns v, of the kind given
Returns(name, a, memo, v, kind) ==
    /\ heap' = Kept(a, memo, v, kind)
    /\ steps' = <<name>>
    /\ out' = kind
    /\ newh' = IF kind = "field" THEN v ELSE NoMap
    /\ links' = IF kind = "paths" THEN v ELSE <<>>
    /\ terr' = IF kind = "owners" THEN v ELSE NoMap
    /\ pc' = "returned"
    /\ UNCHANGED <<mesh, h, downs, epsilon, fi, changed, passes, idxs, flux,
                   gi, cities, nterrs, n, si, queue, cost, trav, amt, rates,
                   cycles, ci, args, mk, limit>>

PureMap ==
    /\ pc = "call"
    /\ \E a \in heap, fn \in MapFns :
        Returns("map", a, FALSE, MapVals(mesh, a.vals, fn), "field")

PureNormalize ==
    /\ pc = "call"
    /\ \E a \in heap :
        Returns("normalize", a, FALSE, NormalizeVals(mesh, a.vals), "field")

PurePeaky ==
    /\ pc = "call"
    /\ \E a \in heap :
        Returns("peaky", a, FALSE, PeakyVals(mesh, a.vals), "field")

PureAdd ==
    /\ pc = "call"
    /\ \E a \in heap, b \in heap :
        Returns("add", a, FALSE, AddVals(mesh, a.vals, b.vals), "field")

PureRelax ==
    /\ pc = "call"
    /\ \E a \in heap :
        Returns("relax", a, FALSE, RelaxVals(mesh, a.vals), "field")

PureSetSeaLevel ==
    /\ pc = "call"
    /\ \E a \in heap, q \in Quantiles :
        \E delta \in Quantile(mesh, a.vals, q) :
            Returns("setSeaLevel", a, FALSE,
                    SeaLevelVals(mesh, a.vals, delta), "field")

PureFillSinks ==
    /\ pc = "call"
    /\ \E a \in heap, eps \in 0..MaxEpsilon :
        Returns("fillSinks", a, FALSE, FillSinks(mesh, a.vals, eps), "field")

PureErode ==
    /\ pc = "call"
    /\ \E a \in heap, amount \in Amounts :
        \E r \in ErodeFrom(mesh, a.vals, WithMemo(mesh, a).downhill, amount) :
            Returns("erode", a, TRUE, r, "field")

PureDoErosion ==
    /\ pc = "call"
    /\ \E a \in heap, amount \in Amounts, k \in 0..MaxCycles :
        \E r \in DoErosionResults(mesh, a.vals, amount, k) :
            Returns("doErosion", a, FALSE, r, "field")

PureGetFlux ==
    /\ pc = "call"
    /\ \E a \in heap :
        \E fl \in FluxResults(mesh, a.vals, WithMemo(mesh, a).downhill) :
            Returns("getFlux", a, TRUE, fl, "field")

PureGetSlope ==
    /\ pc = "call"
    /\ \E a \in heap :
        Returns("getSlope", a, TRUE, SlopeVals(mesh, a.vals), "field")

PureErosionRate ==
    /\ pc = "call"
    /\ \E a \in heap :
        \E er \in RateResults(mesh, a.vals, WithMemo(mesh, a).downhill) :
            Returns("erosionRate", a, TRUE, er, "field")

PureGetRivers ==
    /\ pc = "call"
    /\ \E a \in heap, lim \in Limits :
        \E ls \in RiverResults(mesh, a.vals, WithMemo(mesh, a).downhill,
                               lim) :
            Returns("getRivers", a, TRUE, ls, "paths")

PureGetTerritories ==
    /\ pc = "call"
    /\ \E a \in heap, cs \in LibCityLists(mesh), k \in 0..MaxCities :
        Returns("getTerritories", a, TRUE, TerrArray(mesh, cs, k), "owners")

NextPure ==
    \/ PureMap \/ PureNormalize \/ PurePeaky \/ PureAdd \/ PureRelax
    \/ PureSetSeaLevel \/ PureFillSinks \/ PureErode \/ PureDoErosion
    \/ PureGetFlux \/ PureGetSlope \/ PureErosionRate \/ PureGetRivers
    \/ PureGetTerritories

SpecPure == InitPure /\ [][NextPure]_vars

\* the mesh is as it was, and every array the caller held is still held
\* with the values it had, and with the memo it had if it had one
Untouched ==
    /\ mesh' = mesh
    /\ \A a \in heap :
        \E b \in heap' :
            /\ b.vals = a.vals
            /\ a.downhill # NoMap => b.downhill = a.downhill
    /\ \A b \in heap' : \E a \in heap : b.vals = a.vals

\* C16 as stated: every transform and every derived computation leaves the
\* values of its input fields and the mesh unchanged, the downhill memo
\* being all that may be attached, and returns an array bound to the same
\* mesh with the same vertex count.
C16_PureAndBound ==
    [][pc = "call" =>
        /\ Untouched
        /\ out' = "field"
        /\ DOMAIN newh' = Vertices(mesh)]_vars

\* C16 amended: every transform and every derived computation leaves the
\* values of its input fields and the mesh unchanged, the downhill memo
\* being all that may be attached; getRivers returns a list of paths bound to
\* no mesh, getTerritories an array bound to the same mesh that has no index
\* past the vertices and may be shorter than the vertex count, and each of
\* the others an array bound to the same mesh with the same vertex count.
C16_PureAndBoundButPaths ==
    [][pc = "call" =>
        /\ Untouched
        /\ IF steps'[1] = "getRivers"
           THEN out' = "paths" /\ newh' = NoMap /\ terr' = NoMap
           ELSE IF steps'[1] = "getTerritories"
           THEN /\ out' = "owners"
                /\ DOMAIN terr' \subseteq Vertices(mesh)
                /\ \A i \in DOMAIN terr' : i + 1 \in DOMAIN terr' \/ terr'[i]
           ELSE out' = "field" /\ DOMAIN newh' = Vertices(mesh)]_vars

\* C16 witness: erode has returned an array with other values than those of
\* its argument, which is still held with its values and now has its memo
C16_Witness ==
    /\ pc = "returned" /\ steps = <<"erode">> /\ out = "field"
    /\ \E a \in heap :
        /\ a.downhill = ComputeDownhill(mesh, a.vals)
        /\ a.vals # newh
        /\ NewField(a.vals) \notin heap
        /\ \E i \in Vertices(mesh) : newh[i] # NaN /\ newh[i] < a.vals[i]

=============================================================================
